---- MODULE Spec2Model ----
(***************************************************************************)
(* A model of coastwatch's orchestration layer.                            *)
(*                                                                         *)
(*   RateGate     coastwatch/common/rate_limiter.py  TokenBucketRateLimiter *)
(*   FrameSource  coastwatch/capture/grabber.py      FrameGrabber           *)
(*   AnalysisOrchestrator                                                  *)
(*                coastwatch/analysis/pipeline.py    AnalysisPipeline       *)
(*                coastwatch/analysis/vision_client.py  VisionClient        *)
(*   CaptureScheduler                                                      *)
(*                coastwatch/capture/scheduler.py    CaptureScheduler       *)
(*   ObservationStore                                                      *)
(*                coastwatch/storage/repository.py   ObservationRepository  *)
(*                                                                         *)
(* Each component has its own specification (SpecGate, SpecFetch,          *)
(* SpecFetchAll, SpecPipeline, SpecRunOnce, SpecDaemon, SpecStore,         *)
(* SpecRegistry); the variables of the components that take no part in it  *)
(* keep their initial values.                                              *)
(***************************************************************************)
EXTENDS Integers, Sequences, FiniteSets, TLC

(***************************************************************************)
(* Bounds of the model.                                                    *)
(***************************************************************************)
\* concurrent acquire() calls sharing one limiter
NCallers == 3
\* rpm is drawn from 1..MaxRpm, daily from 1..MaxDaily
MaxRpm == 2
MaxDaily == 3
\* resolution of time: ticks in 60/rpm seconds, the time that refills one token
TicksPerToken == 2
\* UTC midnights that pass
MaxDay == 1
\* endpoints of a site: the primary and up to MaxUrls - 1 fallbacks
MaxUrls == 3
\* max_retries is drawn from 0..MaxRetries
MaxRetries == 3
\* beaches given to grab_all: 0..MaxBeaches of them
MaxBeaches == 3
\* the daemon's interval is drawn from 1..MaxInterval ticks
MaxInterval == 2
\* cycles the daemon starts
MaxCycles == 2
\* beaches the daemon monitors: 0..MaxDaemonBeaches of them
MaxDaemonBeaches == 2
\* concurrency is drawn from 1..MaxConcurrency
MaxConcurrency == 2
\* rows saved to the observations table
MaxRows == 3
\* the clock of the store runs from slot 0 to slot MaxNow
MaxNow == 2
\* resolution of the store's time: slots to a UTC day
SlotsPerDay == 2
\* the windows of the queries are drawn from 1..MaxWindow slots
MaxWindow == 2
\* rows saved to the observations table while the registry is synced
MaxRegistryObs == 1

Callers == 1..NCallers

Min(a, b) == IF a <= b THEN a ELSE b
Max(a, b) == IF a >= b THEN a ELSE b

VARIABLES
  \* ---- TokenBucketRateLimiter
  rpm,               \* self._rpm
  daily,             \* self._daily
  tokens,            \* self._tokens, in units of 1/TicksPerToken of a token
  sinceRefill,       \* time.monotonic() - self._last_refill, in ticks, saturated at the bucket's capacity
  daily_used,        \* self._daily_used
  daily_reset_date,  \* self._daily_reset_date
  today,             \* datetime.now(timezone.utc).date()
  gpc,               \* position of each acquire() call: "idle", "sleeping", "done", "failed"
  remaining,         \* ticks left of asyncio.sleep(wait_time) of each suspended call
  \* history of the limiter, read by the properties only
  granted,           \* acquisitions that have returned
  clock,             \* ticks since construction, saturated at ClockCap
  suspended          \* whether the call has suspended at least once

gateVars == <<rpm, daily, tokens, sinceRefill, daily_used, daily_reset_date, today,
              gpc, remaining, granted, clock, suspended>>

VARIABLES
  \* ---- FrameGrabber.grab_frame, one call
  all_urls,          \* [url] + beach.webcam.fallback_urls: records [id, windy]
  max_retries,       \* self._max_retries
  windy_api_key,     \* whether self._windy_api_key is set
  fpc,               \* position of the call: "idle", "next_url", "attempt", "backoff", "returned", "raised"
  url_idx,           \* position of attempt_url in all_urls (0 before the loop)
  attempt,           \* the loop variable of _fetch_url / _fetch_windy
  urls_tried,        \* urls_tried
  last_error,        \* last_error: "none", "http" (httpx.HTTPError) or "other"
  frame,             \* the GrabbedFrame returned, NoFrame before
  \* history of the call, read by the properties only
  attempts,          \* attempts made on each endpoint
  sleeps,            \* the backoff sleeps made on each endpoint, in units of self._backoff
  yielded,           \* positions of the endpoints that have yielded image bytes
  ended              \* how _fetch_url ended on each endpoint: "none", "ok", "http", "other"

fetchVars == <<all_urls, max_retries, windy_api_key, fpc, url_idx, attempt, urls_tried,
               last_error, frame, attempts, sleeps, yielded, ended>>

VARIABLES
  \* ---- FrameGrabber.grab_all, one call
  beaches,           \* the ids of the beaches given, in the order given
  concurrency,       \* concurrency
  sem_value,         \* the free slots of asyncio.Semaphore(concurrency)
  sem_waiters,       \* the tasks waiting for the semaphore, first come first
  tpc,               \* position of each _grab_one task: "created", "waiting", "fetching", "finished", "crashed"
  task_result,       \* the GrabResult each _grab_one task returned, NoResult before
  apc,               \* position of grab_all: "idle", "gathering", "returned", "raised"
  results,           \* the list grab_all returns
  \* history of the call, read by the properties only
  outcome,           \* how grab_frame ended for each beach: "none", "frame", "unavailable", "crash"
  had_to_wait        \* whether the task had to wait for a slot

allVars == <<beaches, concurrency, sem_value, sem_waiters, tpc, task_result, apc, results,
             outcome, had_to_wait>>

VARIABLES
  \* ---- AnalysisPipeline.process_frame, one call
  use_ai,            \* the argument use_ai
  person_detector,   \* whether self._person_detector is set
  weather_client,    \* whether self._weather_client is set
  vision,            \* whether self._vision is set
  ppc,               \* position of the call: "idle", "local", "detection", "weather", "escalation",
                     \*   "acquiring", "merge", "returned", "raised"
  local_result,      \* local_result, NoLocal before
  person_result,     \* person_result
  weather_data,      \* weather_data
  vision_result,     \* vision_result
  model_used,        \* model_used
  error_message,     \* error_message
  obs,               \* the Observation returned, Absent before
  \* history of the call, read by the properties only
  ran,               \* the stages that were run: "detection", "weather", "escalation"
  failed,            \* the stages that failed: "local", "detection", "weather", "acquire",
                     \*   "call", "parse"
  service_calls,     \* calls of self._client.messages.create
  vision_args        \* the results analyze_frame was called with

pipeVars == <<use_ai, person_detector, weather_client, vision, ppc, local_result,
              person_result, weather_data, vision_result, model_used, error_message, obs,
              ran, failed, service_calls, vision_args>>

VARIABLES
  \* ---- CaptureScheduler.run_once, one call
  self_beaches,      \* self._beaches: the ids of the configured beaches
  beach_ids,         \* the argument beach_ids, as a set ({} for None and for [])
  cpc,               \* position of the call: "idle", "fetching", "looping", "analysing",
                     \*   "returned", "raised"
  ridx,              \* position of result in results (the for loop)
  successful,        \* successful
  rows,              \* the rows of the observations table that are committed
  pending,           \* the rows inserted in a transaction that is not committed yet
  \* history of the call, read by the properties only
  processed          \* how each result was dealt with: "none", "skipped", "saved",
                     \*   "analysis_raised", "execute_raised", "commit_raised"

cycleVars == <<self_beaches, beach_ids, cpc, ridx, successful, rows, pending, processed>>

VARIABLES
  \* ---- CaptureScheduler.run_daemon, one call
  running,           \* self._running
  dpc,               \* position of the call: "idle", "top" (the while test), "cycle",
                     \*   "sleeping", "stopped"
  interval,          \* self._default_interval, in ticks
  cycle_elapsed,     \* elapsed: time.monotonic() - start as line 81 reads it, in ticks
  sleep_time,        \* what is left of asyncio.sleep(sleep_time)
  \* history of the call, read by the properties only
  cycles,            \* cycles started
  gap,               \* ticks since the start of the last cycle
  signal_at,         \* where the loop was when the signal came: "none", "cycle", "sleeping"
  cycle_raised       \* whether the last cycle that ended raised

daemonVars == <<running, dpc, interval, cycle_elapsed, sleep_time, cycles, gap, signal_at,
                cycle_raised>>

VARIABLES
  \* ---- ObservationRepository over one database
  observations,      \* the rows of the observations table, in rowid order
  sqlite_sequence,   \* the greatest rowid AUTOINCREMENT has given out
  now,               \* the clock, in slots since the start of day 0
  \* history of the calls, read by the properties only
  lastrowid,         \* what the last save returned, Absent before the first
  last_obs,          \* the Observation the last save was given, Absent before the first
  \* ---- the site registry of the same database
  registry,          \* the rows of the beaches table, in rowid order
  \* history of the calls, read by the properties only
  last_sync,         \* the configs the last sync_beaches was given, Absent before the first
  repeated           \* whether the call before it was given the same configs

storeVars == <<observations, sqlite_sequence, now, lastrowid, last_obs, registry, last_sync,
               repeated>>

vars == <<gateVars, fetchVars, allVars, pipeVars, cycleVars, daemonVars, storeVars>>

\* a step of the rate limiter
GateStep == UNCHANGED <<fetchVars, allVars, pipeVars, cycleVars, daemonVars, storeVars>>

\* a step of grab_frame
FetchStep == UNCHANGED <<gateVars, allVars, pipeVars, cycleVars, daemonVars, storeVars>>

\* a step of grab_all
AllStep == UNCHANGED <<gateVars, fetchVars, pipeVars, cycleVars, daemonVars, storeVars>>

\* a step of process_frame
PipeStep == UNCHANGED <<gateVars, fetchVars, allVars, cycleVars, daemonVars, storeVars>>

\* a step of the loop of run_once
CycleStep == UNCHANGED <<gateVars, fetchVars, allVars, pipeVars, daemonVars, storeVars>>

\* a step of the loop of run_daemon
DaemonStep == UNCHANGED <<gateVars, fetchVars, pipeVars, storeVars>>

\* a step of the repository leaves the other components alone
StoreStep == UNCHANGED <<gateVars, fetchVars, allVars, pipeVars, cycleVars, daemonVars>>

\* grab_all's default concurrency, with which run_once calls it
DefaultConcurrency == 4

\* the properties read the clock up to the refill time of one token
ClockCap == TicksPerToken

(***************************************************************************)
(* FrameGrabber.grab_frame                                                 *)
(***************************************************************************)
\* no GrabbedFrame (None)
NoFrame == [beach_id |-> 0, image_bytes |-> 0, source_url |-> 0]

\* the beach whose frame is grabbed
TheBeach == 1

\* the sites' endpoint lists: the primary and the fallbacks, a URL being one of
\* the provider's (windy://...) or a plain one
UrlLists ==
  UNION {[1..n -> BOOLEAN] : n \in 1..MaxUrls}

MakeUrls(w) == [i \in DOMAIN w |-> [id |-> i, windy |-> w[i]]]

\* the image an endpoint serves
BytesOf(u) == u.id

\* no grab_frame call is in progress
FetchIdle ==
  /\ all_urls = <<>>
  /\ max_retries = 0
  /\ windy_api_key = FALSE
  /\ fpc = "idle"
  /\ url_idx = 0
  /\ attempt = 0
  /\ urls_tried = <<>>
  /\ last_error = "none"
  /\ frame = NoFrame
  /\ attempts = <<>>
  /\ sleeps = <<>>
  /\ yielded = {}
  /\ ended = <<>>

\* grab_frame is called: lines 52-56
FetchStart ==
  /\ \E w \in UrlLists : all_urls = MakeUrls(w)
  /\ max_retries \in 0..MaxRetries
  /\ windy_api_key \in BOOLEAN
  /\ fpc = "next_url"
  /\ url_idx = 0
  /\ attempt = 0
  /\ urls_tried = <<>>
  /\ last_error = "none"
  /\ frame = NoFrame
  /\ attempts = [i \in DOMAIN all_urls |-> 0]
  /\ sleeps = [i \in DOMAIN all_urls |-> <<>>]
  /\ yielded = {}
  /\ ended = [i \in DOMAIN all_urls |-> "none"]

\* mutant: the loop stops before the last fallback
HasNextUrl_SkipLast(i, urls) == i < Len(urls) - 1

\* for attempt_url in all_urls, line 59
HasNextUrl(i, urls) == i < Len(urls)

\* _fetch_url, line 77
IsWindy(u) == u.windy

\* for attempt in range(self._max_retries), lines 81 and 103
InRange(a, n) == a < n

\* mutant: the last retry is given up
RetryAgain_OneFewer(a, n) == a < n - 2

\* if attempt < self._max_retries - 1, lines 87 and 122
RetryAgain(a, n) == a < n - 1

\* mutant: every backoff lasts the same
BackoffFactor_Constant(a) == 1

\* asyncio.sleep(self._backoff * (attempt + 1)), lines 88 and 123: the factor
\* of the backoff after the failure of the attempt of index a
BackoffFactor(a) == a + 1

\* mutant: the frame records the primary URL, whichever endpoint served it
MakeFrame_PrimaryUrl(b, u, urls) ==
  [beach_id |-> b, image_bytes |-> BytesOf(u), source_url |-> urls[1]]

\* GrabbedFrame(...), lines 63-68
MakeFrame(b, u, urls) ==
  [beach_id |-> b, image_bytes |-> BytesOf(u), source_url |-> u]

\* except Exception as e, lines 69-71: the error is kept and the loop goes on
CatchAndGoOn(i, kind) ==
  /\ last_error' = kind
  /\ ended' = [ended EXCEPT ![i] = kind]
  /\ fpc' = "next_url"

\* the loop of grab_frame takes the next URL and enters _fetch_url, up to its
\* first request: a provider URL without an API key raises (lines 96-97), and so
\* does a loop of no attempts (lines 92 and 127)
BeginUrl ==
  /\ fpc = "next_url"
  /\ HasNextUrl(url_idx, all_urls)
  /\ FetchStep
  /\ url_idx' = url_idx + 1
  /\ urls_tried' = Append(urls_tried, all_urls[url_idx + 1])
  /\ attempt' = 0
  /\ IF (IsWindy(all_urls[url_idx + 1]) /\ ~windy_api_key) \/ ~InRange(0, max_retries)
       THEN CatchAndGoOn(url_idx + 1, "other")
       ELSE /\ fpc' = "attempt"
            /\ UNCHANGED <<last_error, ended>>
  /\ UNCHANGED <<all_urls, max_retries, windy_api_key, frame, attempts, sleeps, yielded>>

\* one pass of the retry loop, lines 82-90 and 104-125: the requests succeed
\* (ok), fail with an httpx.HTTPError (http), or fail with any other exception
\* (other: no image URL in the provider's response, a response that is not
\* JSON, an invalid URL)
Attempt(res) ==
  /\ fpc = "attempt"
  /\ FetchStep
  /\ attempts' = [attempts EXCEPT ![url_idx] = @ + 1]
  /\ CASE res = "ok" ->
            /\ frame' = MakeFrame(TheBeach, all_urls[url_idx], all_urls)
            /\ yielded' = yielded \cup {url_idx}
            /\ ended' = [ended EXCEPT ![url_idx] = "ok"]
            /\ fpc' = "returned"
            /\ UNCHANGED <<last_error, sleeps, url_idx>>
       [] res = "http" /\ RetryAgain(attempt, max_retries) ->
            /\ sleeps' = [sleeps EXCEPT ![url_idx] = Append(@, BackoffFactor(attempt))]
            /\ fpc' = "backoff"
            /\ UNCHANGED <<last_error, ended, frame, yielded, url_idx>>
       [] res = "http" /\ ~RetryAgain(attempt, max_retries) ->
            /\ CatchAndGoOn(url_idx, "http")
            /\ UNCHANGED <<frame, yielded, sleeps, url_idx>>
       [] res = "other" ->
            /\ CatchAndGoOn(url_idx, "other")
            /\ UNCHANGED <<frame, yielded, sleeps, url_idx>>
  /\ UNCHANGED <<all_urls, max_retries, windy_api_key, attempt, urls_tried>>

\* asyncio.sleep(backoff * (attempt + 1)) returns and the retry loop goes on; a
\* loop that ends without having raised raises RuntimeError (lines 92 and 127)
AfterBackoff ==
  /\ fpc = "backoff"
  /\ FetchStep
  /\ attempt' = attempt + 1
  /\ IF InRange(attempt + 1, max_retries)
       THEN /\ fpc' = "attempt"
            /\ UNCHANGED <<last_error, ended>>
       ELSE CatchAndGoOn(url_idx, "other")
  /\ UNCHANGED <<all_urls, max_retries, windy_api_key, url_idx, urls_tried, frame,
                 attempts, sleeps, yielded>>

\* raise WebcamUnavailableError(beach.id, urls_tried, last_error), line 73
RaiseUnavailable ==
  /\ fpc = "next_url"
  /\ ~HasNextUrl(url_idx, all_urls)
  /\ FetchStep
  /\ fpc' = "raised"
  /\ UNCHANGED <<all_urls, max_retries, windy_api_key, url_idx, attempt, urls_tried,
                 last_error, frame, attempts, sleeps, yielded, ended>>

NextFetch ==
  \/ BeginUrl
  \/ \E res \in {"ok", "http", "other"} : Attempt(res)
  \/ AfterBackoff
  \/ RaiseUnavailable


(***************************************************************************)
(* FrameGrabber.grab_all                                                   *)
(***************************************************************************)
\* None, as the error of a GrabResult (NoFrame is None as its frame)
None == "None"

NoResult == [beach_id |-> 0, frame |-> NoFrame, error |-> None]

\* the frame grab_frame returns for a beach
FrameOf(b) ==
  [beach_id |-> b, image_bytes |-> b, captured_at |-> <<"at", b>>, source_url |-> <<"url", b>>]

\* no grab_all call is in progress
AllIdle ==
  /\ beaches = <<>>
  /\ concurrency = 1
  /\ sem_value = 0
  /\ sem_waiters = <<>>
  /\ tpc = <<>>
  /\ task_result = <<>>
  /\ apc = "idle"
  /\ results = <<>>
  /\ outcome = <<>>
  /\ had_to_wait = <<>>

\* mutant: the semaphore is created with one slot too many
SemInit_OneMore(c) == c + 1

\* asyncio.Semaphore(concurrency), line 133
SemInit(c) == c

\* grab_all is called: the semaphore is made and gather creates one _grab_one
\* task for each beach, lines 133-144
AllStart ==
  /\ \E n \in 0..MaxBeaches : beaches = [i \in 1..n |-> i]
  /\ concurrency \in 1..MaxConcurrency
  /\ sem_value = SemInit(concurrency)
  /\ sem_waiters = <<>>
  /\ tpc = [i \in DOMAIN beaches |-> "created"]
  /\ task_result = [i \in DOMAIN beaches |-> NoResult]
  /\ apc = "gathering"
  /\ results = <<>>
  /\ outcome = [i \in DOMAIN beaches |-> "none"]
  /\ had_to_wait = [i \in DOMAIN beaches |-> FALSE]

\* mutant: only WebcamUnavailableError is caught
Caught_OnlyUnavailable(kind) == kind = "unavailable"

\* except Exception as e, line 140: whatever grab_frame raises
Caught(kind) == TRUE

\* GrabResult(beach_id=beach.id, frame=frame), line 139
SuccessResult(b) == [beach_id |-> b, frame |-> FrameOf(b), error |-> None]

\* GrabResult(beach_id=beach.id, error=e), line 142
FailureResult(b, kind) == [beach_id |-> b, frame |-> NoFrame, error |-> kind]

\* GrabResult.success, lines 36-38
Success(r) == r.frame # NoFrame

\* async with semaphore, line 136, at the task's first step (the event loop
\* starts the tasks in the order gather created them): the task takes a free
\* slot, or queues for one
Enter(i) ==
  /\ apc = "gathering"
  /\ tpc[i] = "created"
  /\ \A j \in DOMAIN tpc : j < i => tpc[j] # "created"
  /\ AllStep
  /\ IF sem_value > 0 /\ sem_waiters = <<>>
       THEN /\ sem_value' = sem_value - 1
            /\ tpc' = [tpc EXCEPT ![i] = "fetching"]
            /\ UNCHANGED <<sem_waiters, had_to_wait>>
       ELSE /\ sem_waiters' = Append(sem_waiters, i)
            /\ tpc' = [tpc EXCEPT ![i] = "waiting"]
            /\ had_to_wait' = [had_to_wait EXCEPT ![i] = TRUE]
            /\ UNCHANGED sem_value
  /\ UNCHANGED <<beaches, concurrency, task_result, apc, results, outcome>>

\* the task's grab_frame ends, with a frame, with WebcamUnavailableError or
\* with another exception; the task returns its GrabResult (lines 137-142) and
\* leaves the semaphore, whose slot goes to the first waiting task
FinishFetch(i, kind) ==
  /\ tpc[i] = "fetching"
  /\ AllStep
  /\ outcome' = [outcome EXCEPT ![i] = kind]
  /\ task_result' =
       [task_result EXCEPT ![i] =
          IF kind = "frame" THEN SuccessResult(beaches[i])
          ELSE IF Caught(kind) THEN FailureResult(beaches[i], kind)
          ELSE @]
  /\ LET end == IF kind = "frame" \/ Caught(kind) THEN "finished" ELSE "crashed" IN
       IF sem_waiters = <<>>
         THEN /\ sem_value' = sem_value + 1
              /\ tpc' = [tpc EXCEPT ![i] = end]
              /\ UNCHANGED sem_waiters
         ELSE /\ sem_waiters' = Tail(sem_waiters)
              /\ tpc' = [tpc EXCEPT ![i] = end, ![Head(sem_waiters)] = "fetching"]
              /\ UNCHANGED sem_value
  /\ UNCHANGED <<beaches, concurrency, apc, results, had_to_wait>>

\* asyncio.gather, lines 144-145: it raises the exception of a task that
\* raised, as soon as there is one; when every task has returned it returns
\* their results in the order of the beaches, and grab_all returns that list
Gather ==
  /\ apc = "gathering"
  /\ \/ \A i \in DOMAIN tpc : tpc[i] = "finished"
     \/ \E i \in DOMAIN tpc : tpc[i] = "crashed"
  /\ AllStep
  /\ IF \E i \in DOMAIN tpc : tpc[i] = "crashed"
       THEN /\ apc' = "raised"
            /\ UNCHANGED results
       ELSE /\ apc' = "returned"
            /\ results' = [i \in DOMAIN beaches |-> task_result[i]]
  /\ UNCHANGED <<beaches, concurrency, sem_value, sem_waiters, tpc, task_result, outcome,
                 had_to_wait>>

NextAll ==
  \/ \E i \in DOMAIN tpc : Enter(i)
  \/ \E i \in DOMAIN tpc : \E kind \in {"frame", "unavailable", "crash"} : FinishFetch(i, kind)
  \/ Gather

(***************************************************************************)
(* TokenBucketRateLimiter                                                  *)
(***************************************************************************)
\* the bucket's capacity, float(rpm), in token units
Capacity(r) == r * TicksPerToken

GateStart ==
  /\ rpm \in 1..MaxRpm
  /\ daily \in 1..MaxDaily
  /\ tokens = Capacity(rpm)
  /\ sinceRefill = 0
  /\ daily_used = 0
  /\ daily_reset_date = 0
  /\ today = 0
  /\ gpc = [c \in Callers |-> "idle"]
  /\ remaining = [c \in Callers |-> 0]
  /\ granted = 0
  /\ clock = 0
  /\ suspended = [c \in Callers |-> FALSE]

\* no limiter is in use
GateIdle ==
  /\ rpm = 1
  /\ daily = 1
  /\ tokens = Capacity(1)
  /\ sinceRefill = 0
  /\ daily_used = 0
  /\ daily_reset_date = 0
  /\ today = 0
  /\ gpc = [c \in Callers |-> "idle"]
  /\ remaining = [c \in Callers |-> 0]
  /\ granted = 0
  /\ clock = 0
  /\ suspended = [c \in Callers |-> FALSE]

\* mutant: the counter is not reset when the date has changed
UsedAfterRollover_NoReset(used, resetDate, day) == used

\* acquire, lines 25-28: the counter the daily check reads
UsedAfterRollover(used, resetDate, day) == IF day # resetDate THEN 0 ELSE used

\* mutant: the cap is compared with > instead of >=
DailyReached_Strict(used, cap) == used > cap

\* acquire, line 30
DailyReached(used, cap) == used >= cap

\* mutant: the refill is not capped at rpm
Refill_Uncapped(tok, elapsed, r) == tok + elapsed

\* mutant: the refill is not capped at rpm and runs at twice the rate
Refill_Fast(tok, elapsed, r) == tok + 2 * elapsed

\* _refill: elapsed * (rpm / 60) is one unit per tick
Refill(tok, elapsed, r) == Min(Capacity(r), tok + elapsed)

\* acquire, line 37
HasToken(tok) == tok >= TicksPerToken

\* mutant: the token is not taken from the bucket
Consume_None(tok) == tok

\* acquire, line 38
Consume(tok) == tok - TicksPerToken

\* acquire, line 41: (1.0 - tokens) / (rpm / 60), in ticks
WaitTime(tok) == TicksPerToken - tok

\* one pass of the while loop of acquire, lines 36-42, up to its return or its sleep
TryToken(c, used) ==
  LET t == Refill(tokens, sinceRefill, rpm) IN
  /\ sinceRefill' = 0
  /\ IF HasToken(t)
       THEN /\ tokens' = Consume(t)
            /\ daily_used' = used + 1
            /\ gpc' = [gpc EXCEPT ![c] = "done"]
            /\ granted' = granted + 1
            /\ UNCHANGED <<remaining, suspended>>
       ELSE /\ tokens' = t
            /\ daily_used' = used
            /\ gpc' = [gpc EXCEPT ![c] = "sleeping"]
            /\ remaining' = [remaining EXCEPT ![c] = WaitTime(t)]
            /\ suspended' = [suspended EXCEPT ![c] = TRUE]
            /\ UNCHANGED granted

\* acquire() from its call to its first suspension, return or raise
Acquire(c) ==
  /\ gpc[c] = "idle"
  /\ GateStep
  /\ daily_reset_date' = today
  /\ LET used == UsedAfterRollover(daily_used, daily_reset_date, today) IN
       IF DailyReached(used, daily)
         THEN /\ gpc' = [gpc EXCEPT ![c] = "failed"]
              /\ daily_used' = used
              /\ UNCHANGED <<tokens, sinceRefill, remaining, granted, suspended>>
         ELSE TryToken(c, used)
  /\ UNCHANGED <<rpm, daily, today, clock>>

\* asyncio.sleep(wait_time) returns and the loop of acquire runs again
Resume(c) ==
  /\ gpc[c] = "sleeping"
  /\ GateStep
  /\ remaining[c] = 0
  /\ TryToken(c, daily_used)
  /\ UNCHANGED <<rpm, daily, daily_reset_date, today, clock>>

\* one tick of time.monotonic()
Tick ==
  /\ GateStep
  /\ sinceRefill' = Min(Capacity(rpm), sinceRefill + 1)
  /\ remaining' = [c \in Callers |-> Max(0, remaining[c] - 1)]
  /\ clock' = Min(ClockCap, clock + 1)
  /\ UNCHANGED <<rpm, daily, tokens, daily_used, daily_reset_date, today, gpc,
                 granted, suspended>>

\* UTC midnight passes
Midnight ==
  /\ today < MaxDay
  /\ GateStep
  /\ today' = today + 1
  /\ UNCHANGED <<rpm, daily, tokens, sinceRefill, daily_used, daily_reset_date, gpc,
                 remaining, granted, clock, suspended>>

NextGate ==
  \/ \E c \in Callers : Acquire(c)
  \/ \E c \in Callers : Resume(c)
  \/ Tick
  \/ Midnight

(***************************************************************************)
(* AnalysisPipeline.process_frame                                          *)
(***************************************************************************)
\* a value that is None
Absent == [set |-> FALSE]

\* a value that is not None
Val(v) == [set |-> TRUE, v |-> v]

\* the acquire() call that analyze_frame makes for the frame
PipeCaller == 1

\* the GrabbedFrame given to process_frame
TheFrame == [beach_id |-> TheBeach, image_bytes |-> 1, source_url |-> 1, captured_at |-> 1]

\* CameraStatus.status
CameraStatuses == {"working", "night", "offline", "obstructed"}

\* CameraStatus.reason of a result
ReasonOf(s) == IF s = "working" THEN "" ELSE "why the camera is " \o s

\* ImageQuality.issues of a result
IssuesOf(usable) == IF usable THEN "[]" ELSE "['too_dark']"

\* the results of ImageAnalyzer.analyze: camera status, wave state, quality verdict
LocalResults ==
  {[status |-> s, reason |-> ReasonOf(s), is_usable |-> u, issues |-> IssuesOf(u),
    wave_level |-> "small"] : s \in CameraStatuses, u \in BOOLEAN}

\* no local_result yet
NoLocal == [status |-> "none", reason |-> "", is_usable |-> FALSE, issues |-> "[]",
            wave_level |-> "none"]

\* the text of the exception an external call raised
ErrorText == "error text"

\* str(RateLimitError) as acquire raises it, rate_limiter.py lines 31-33
QuotaText(d) == <<"Daily API limit reached (", ToString(d), "). Resets at midnight UTC.">>

\* str(VisionAnalysisError(beach.id, str(e))), exceptions.py line 34
TransportText(b, msg) == <<"Vision analysis failed for ", ToString(b), ": ", msg>>

\* mutant: a parse failure is reported as VisionAnalysisError
ParseText_AsTransport(kind, msg) == TransportText(TheBeach, msg)

\* str(VisionParseError(...)), vision_client.py lines 178 and 183
ParseText(kind, msg) ==
  IF kind = "bad_json" THEN <<"Invalid JSON from Claude: ", msg, "\nRaw: ", "raw text">>
  ELSE <<"Invalid schema from Claude: ", msg>>

\* f"Camera {status}: {reason}", line 119
CameraText(lr) == <<"Camera ", lr.status, ": ", lr.reason>>

\* f"Image unusable: {issues}", line 123
UnusableText(lr) == <<"Image unusable: ", lr.issues>>

\* mutant: the image quality is not looked at
ShouldEscalate_AnyQuality(ai, v, lr) == ai /\ v /\ lr.status = "working"

\* the condition of the if, lines 93-95
ShouldEscalate(ai, v, lr) == ai /\ v /\ lr.status = "working" /\ lr.is_usable

\* the elif branches, lines 117-124, reached when ShouldEscalate is false
SkipReason(ai, v, lr) ==
  IF ai /\ v /\ lr.status # "working" THEN Val(CameraText(lr))
  ELSE IF ai /\ v /\ ~lr.is_usable THEN Val(UnusableText(lr))
  ELSE Absent

\* mutant: detection runs whatever the camera status
ShouldDetect_AnyStatus(d, lr) == d

\* the condition of the if, line 67
ShouldDetect(d, lr) == d /\ lr.status = "working"

\* mutant: the weather is fetched for a working camera only
ShouldFetchWeather_OnlyWorking(w, lr) == w /\ lr.status = "working"

\* the condition of the if, line 76
ShouldFetchWeather(w, lr) == w

\* mutant: the detection fields are not copied
PersonCount_Dropped(pr) == Absent

\* _merge_results, lines 166-169
PersonCount(pr) == IF pr.set THEN Val(pr.v.person_count) ELSE Absent

\* _merge_results, lines 172-173
WeatherTemperature(wd) ==
  IF wd.set /\ wd.v.temperature_c.set THEN wd.v.temperature_c ELSE Absent

\* mutant: the model's name is recorded whether or not a report was made
MergeResults_ModelAlways(lr, pr, wd, vr, mu, em) ==
  [beach_id |-> TheBeach,
   captured_at |-> TheFrame.captured_at,
   source_url |-> TheFrame.source_url,
   camera_status |-> lr.status,
   camera_status_reason |-> lr.reason,
   cv_wave_level |-> Val(lr.wave_level),
   person_count |-> PersonCount(pr),
   weather_temperature_c |-> WeatherTemperature(wd),
   ai_beach_score |-> IF vr.set THEN Val(vr.v.beach_score) ELSE Absent,
   ai_summary |-> IF vr.set THEN Val(vr.v.summary) ELSE Absent,
   analysis_model |-> Val("model"),
   error_message |-> em]

\* _merge_results, lines 146-210
MergeResults(lr, pr, wd, vr, mu, em) ==
  [beach_id |-> TheBeach,
   captured_at |-> TheFrame.captured_at,
   source_url |-> TheFrame.source_url,
   camera_status |-> lr.status,
   camera_status_reason |-> lr.reason,
   cv_wave_level |-> Val(lr.wave_level),
   person_count |-> PersonCount(pr),
   weather_temperature_c |-> WeatherTemperature(wd),
   ai_beach_score |-> IF vr.set THEN Val(vr.v.beach_score) ELSE Absent,
   ai_summary |-> IF vr.set THEN Val(vr.v.summary) ELSE Absent,
   analysis_model |-> mu,
   error_message |-> em]

\* mutant: the reasoning service is not given the weather
VisionArgs_NoWeather(lr, pr, wd) ==
  [local_result |-> lr, person_result |-> pr, weather_data |-> Absent]

\* the arguments of self._vision.analyze_frame, lines 97-102
VisionArgs(lr, pr, wd) ==
  [local_result |-> lr, person_result |-> pr, weather_data |-> wd]

\* mutant: a call that fails gives its token and its unit of budget back
BudgetAfterCall_Refund(res, tok, used) ==
  IF res = "ok" THEN [tokens |-> tok, daily_used |-> used]
  ELSE [tokens |-> tok + TicksPerToken, daily_used |-> used - 1]

\* the limiter after messages.create and _parse_response, vision_client.py
\* lines 138-168: no statement gives anything back, whatever the outcome
BudgetAfterCall(res, tok, used) == [tokens |-> tok, daily_used |-> used]

\* no process_frame call is in progress
PipeIdle ==
  /\ use_ai = FALSE
  /\ person_detector = FALSE
  /\ weather_client = FALSE
  /\ vision = FALSE
  /\ ppc = "idle"
  /\ local_result = NoLocal
  /\ person_result = Absent
  /\ weather_data = Absent
  /\ vision_result = Absent
  /\ model_used = Absent
  /\ error_message = Absent
  /\ obs = Absent
  /\ ran = {}
  /\ failed = {}
  /\ service_calls = 0
  /\ vision_args = Absent

\* process_frame is called on a pipeline built as cli/commands/capture.py
\* lines 41-60 builds it: the detector, the weather client and the vision
\* client are each there or not
PipeStart ==
  /\ use_ai \in BOOLEAN
  /\ person_detector \in BOOLEAN
  /\ weather_client \in BOOLEAN
  /\ vision \in BOOLEAN
  /\ ppc = "local"
  /\ local_result = NoLocal
  /\ person_result = Absent
  /\ weather_data = Absent
  /\ vision_result = Absent
  /\ model_used = Absent
  /\ error_message = Absent
  /\ obs = Absent
  /\ ran = {}
  /\ failed = {}
  /\ service_calls = 0
  /\ vision_args = Absent

\* the limiter the vision client holds when the frame comes: earlier frames of
\* the day have used some of the daily budget, and the bucket is full again or
\* has just been emptied
PipeGateStart ==
  /\ rpm \in 1..MaxRpm
  /\ daily \in 1..MaxDaily
  /\ daily_used \in 0..daily
  /\ tokens \in {Capacity(rpm)} \cup (IF daily_used >= rpm THEN {0} ELSE {})
  /\ sinceRefill = 0
  /\ daily_reset_date = 0
  /\ today = 0
  /\ gpc = [c \in Callers |-> "idle"]
  /\ remaining = [c \in Callers |-> 0]
  /\ granted = 0
  /\ clock = 0
  /\ suspended = [c \in Callers |-> FALSE]

\* step 1, lines 51-56: the call of the analyzer is in no try block, what it
\* raises leaves process_frame
LocalAnalysis(res, raises) ==
  /\ ppc = "local"
  /\ PipeStep
  /\ IF raises
       THEN /\ ppc' = "raised"
            /\ failed' = failed \cup {"local"}
            /\ UNCHANGED local_result
       ELSE /\ ppc' = "detection"
            /\ local_result' = res
            /\ UNCHANGED failed
  /\ UNCHANGED <<use_ai, person_detector, weather_client, vision, person_result,
                 weather_data, vision_result, model_used, error_message, obs, ran,
                 service_calls, vision_args>>

\* step 2, lines 66-72: detect returns a result or raises, and what it raises
\* is logged
Detection(res) ==
  /\ ppc = "detection"
  /\ PipeStep
  /\ ppc' = "weather"
  /\ IF ShouldDetect(person_detector, local_result)
       THEN /\ ran' = ran \cup {"detection"}
            /\ IF res = "result"
                 THEN /\ person_result' = Val([person_count |-> 0])
                      /\ UNCHANGED failed
                 ELSE /\ failed' = failed \cup {"detection"}
                      /\ UNCHANGED person_result
       ELSE UNCHANGED <<ran, failed, person_result>>
  /\ UNCHANGED <<use_ai, person_detector, weather_client, vision, local_result,
                 weather_data, vision_result, model_used, error_message, obs,
                 service_calls, vision_args>>

\* step 3, lines 75-86: get_weather returns data, returns a WeatherAPIData
\* without values (no API key, weather_client.py lines 68-70), raises
\* WeatherAPIError or raises something else; what it raises is logged
WeatherFetch(res) ==
  /\ ppc = "weather"
  /\ PipeStep
  /\ ppc' = "escalation"
  /\ IF ShouldFetchWeather(weather_client, local_result)
       THEN /\ ran' = ran \cup {"weather"}
            /\ IF res = "data"
                 THEN /\ weather_data' = Val([temperature_c |-> Val(18)])
                      /\ UNCHANGED failed
                 ELSE IF res = "empty"
                 THEN /\ weather_data' = Val([temperature_c |-> Absent])
                      /\ UNCHANGED failed
                 ELSE /\ failed' = failed \cup {"weather"}
                      /\ UNCHANGED weather_data
       ELSE UNCHANGED <<ran, failed, weather_data>>
  /\ UNCHANGED <<use_ai, person_detector, weather_client, vision, local_result,
                 person_result, vision_result, model_used, error_message, obs,
                 service_calls, vision_args>>

\* step 4, lines 89-124, up to the await of analyze_frame, whose first
\* statement awaits acquire (vision_client.py line 96); or the skip of the stage
Escalation ==
  /\ ppc = "escalation"
  /\ PipeStep
  /\ IF ShouldEscalate(use_ai, vision, local_result)
       THEN /\ ppc' = "acquiring"
            /\ ran' = ran \cup {"escalation"}
            /\ vision_args' = Val(VisionArgs(local_result, person_result, weather_data))
            /\ UNCHANGED error_message
       ELSE /\ ppc' = "merge"
            /\ error_message' = SkipReason(use_ai, vision, local_result)
            /\ UNCHANGED <<ran, vision_args>>
  /\ UNCHANGED <<use_ai, person_detector, weather_client, vision, local_result,
                 person_result, weather_data, vision_result, model_used, obs, failed,
                 service_calls>>

\* acquire raised RateLimitError: analyze_frame ends there and line 112 keeps
\* the text
QuotaExhausted ==
  /\ ppc = "acquiring"
  /\ gpc[PipeCaller] = "failed"
  /\ PipeStep
  /\ ppc' = "merge"
  /\ failed' = failed \cup {"acquire"}
  /\ error_message' = Val(QuotaText(daily))
  /\ UNCHANGED <<use_ai, person_detector, weather_client, vision, local_result,
                 person_result, weather_data, vision_result, model_used, obs, ran,
                 service_calls, vision_args>>

\* acquire returned: messages.create is called (vision_client.py lines
\* 138-165) and _parse_response reads the answer (lines 167-184); lines 103
\* and 111-116 of process_frame keep the result or the text of the exception
AnalyzeFrame(res) ==
  /\ ppc = "acquiring"
  /\ gpc[PipeCaller] = "done"
  /\ tokens' = BudgetAfterCall(res, tokens, daily_used).tokens
  /\ daily_used' = BudgetAfterCall(res, tokens, daily_used).daily_used
  /\ UNCHANGED <<rpm, daily, sinceRefill, daily_reset_date, today, gpc, remaining,
                 granted, clock, suspended>>
  /\ UNCHANGED <<fetchVars, allVars, cycleVars, daemonVars, storeVars>>
  /\ ppc' = "merge"
  /\ service_calls' = service_calls + 1
  /\ IF res = "ok"
       THEN /\ vision_result' = Val([beach_score |-> 7, summary |-> "summary"])
            /\ model_used' = Val("model")
            /\ UNCHANGED <<error_message, failed>>
       ELSE /\ error_message' =
                 Val(IF res = "api_error" THEN TransportText(TheBeach, ErrorText)
                     ELSE IF res \in {"bad_json", "bad_schema"} THEN ParseText(res, ErrorText)
                     ELSE <<ErrorText>>)
            /\ failed' = failed \cup {IF res \in {"bad_json", "bad_schema"} THEN "parse"
                                      ELSE "call"}
            /\ UNCHANGED <<vision_result, model_used>>
  /\ UNCHANGED <<use_ai, person_detector, weather_client, vision, local_result,
                 person_result, weather_data, obs, ran, vision_args>>

\* lines 126-131
Merge ==
  /\ ppc = "merge"
  /\ PipeStep
  /\ ppc' = "returned"
  /\ obs' = MergeResults(local_result, person_result, weather_data, vision_result,
                         model_used, error_message)
  /\ UNCHANGED <<use_ai, person_detector, weather_client, vision, local_result,
                 person_result, weather_data, vision_result, model_used, error_message,
                 ran, failed, service_calls, vision_args>>

\* the results of the external calls
VisionOutcomes == {"ok", "api_error", "bad_json", "bad_schema", "error"}

NextPipeline ==
  \/ \E res \in LocalResults : \E raises \in BOOLEAN : LocalAnalysis(res, raises)
  \/ \E res \in {"result", "raise"} : Detection(res)
  \/ \E res \in {"data", "empty", "api_error", "error"} : WeatherFetch(res)
  \/ Escalation
  \/ ppc = "acquiring" /\ Acquire(PipeCaller)
  \/ ppc = "acquiring" /\ Resume(PipeCaller)
  \/ ppc = "acquiring" /\ gpc[PipeCaller] = "sleeping" /\ Tick
  \/ QuotaExhausted
  \/ \E res \in VisionOutcomes : AnalyzeFrame(res)
  \/ Merge

(***************************************************************************)
(* CaptureScheduler.run_once                                               *)
(***************************************************************************)
\* the items of a list, last first
Reversed(seq) == [i \in DOMAIN seq |-> seq[Len(seq) + 1 - i]]

\* mutant: the selected sites are taken last first
SelectSites_Reversed(bs, ids) ==
  Reversed(IF ids # {} THEN SelectSeq(bs, LAMBDA b : b \in ids) ELSE bs)

\* run_once, lines 38-40: beach_ids, when given and not empty, filters
\* self._beaches
SelectSites(bs, ids) ==
  IF ids # {} THEN SelectSeq(bs, LAMBDA b : b \in ids) ELSE bs

\* grab_all(beaches) is called: the state of AllStart for these beaches
GrabAllCalled(bs, c) ==
  /\ beaches = bs
  /\ concurrency = c
  /\ sem_value = SemInit(c)
  /\ sem_waiters = <<>>
  /\ tpc = [i \in DOMAIN bs |-> "created"]
  /\ task_result = [i \in DOMAIN bs |-> NoResult]
  /\ apc = "gathering"
  /\ results = <<>>
  /\ outcome = [i \in DOMAIN bs |-> "none"]
  /\ had_to_wait = [i \in DOMAIN bs |-> FALSE]

\* mutant: the first config is taken whatever the result's site
BeachFor_First(bs, id) == bs[1]

\* line 50: next(b for b in beaches if b.id == result.beach_id), a config
\* being modelled by its id
BeachFor(bs, id) ==
  bs[CHOOSE i \in DOMAIN bs : bs[i] = id /\ \A j \in 1..(i - 1) : bs[j] # id]

\* the row that save inserts for the Observation process_frame makes of a
\* result's frame and its config (pipeline.py lines 146-149): the id of the
\* config, the capture time and the endpoint of the frame
RowOf(bs, r) ==
  [beach_id |-> BeachFor(bs, r.beach_id),
   captured_at |-> r.frame.captured_at,
   source_url |-> r.frame.source_url]

\* no run_once call is in progress
CycleIdle ==
  /\ self_beaches = <<>>
  /\ beach_ids = {}
  /\ cpc = "idle"
  /\ ridx = 0
  /\ successful = <<>>
  /\ rows = <<>>
  /\ pending = <<>>
  /\ processed = <<>>

\* run_once is called and has called grab_all, lines 38-42; the table has no
\* row of this cycle yet (earlier rows are left out)
CycleStart ==
  /\ \E n \in 0..MaxBeaches : self_beaches = [i \in 1..n |-> i]
  /\ beach_ids \in SUBSET {self_beaches[i] : i \in DOMAIN self_beaches}
  /\ GrabAllCalled(SelectSites(self_beaches, beach_ids), DefaultConcurrency)
  /\ cpc = "fetching"
  /\ ridx = 0
  /\ successful = <<>>
  /\ rows = <<>>
  /\ pending = <<>>
  /\ processed = <<>>

\* mutant: the id is appended before save is called
Succeeded_BeforeSave(res) == res \in {"saved", "execute_raised", "commit_raised"}

\* lines 52-54: successful.append is reached when process_frame and save returned
Succeeded(res) == res = "saved"

\* mutant: only what process_frame raises is caught
CaughtInCycle_OnlyAnalysis(res) == res = "analysis_raised"

\* except Exception as e, line 57
CaughtInCycle(res) == TRUE

\* grab_all has ended, line 42: what it raises leaves run_once, what it returns
\* is looped over
LoopStart ==
  /\ cpc = "fetching"
  /\ apc \in {"returned", "raised"}
  /\ CycleStep
  /\ IF apc = "raised"
       THEN /\ cpc' = "raised"
            /\ UNCHANGED <<ridx, processed>>
       ELSE /\ cpc' = "looping"
            /\ ridx' = 1
            /\ processed' = [i \in DOMAIN results |-> "none"]
  /\ UNCHANGED <<self_beaches, beach_ids, successful, rows, pending>>

\* lines 46-48: a result without frame is skipped
SkipFailed ==
  /\ cpc = "looping"
  /\ ridx <= Len(results)
  /\ ~Success(results[ridx])
  /\ CycleStep
  /\ processed' = [processed EXCEPT ![ridx] = "skipped"]
  /\ ridx' = ridx + 1
  /\ UNCHANGED <<self_beaches, beach_ids, cpc, successful, rows, pending>>

\* lines 50-52: process_frame is awaited for a result with a frame
BeginProcess ==
  /\ cpc = "looping"
  /\ ridx <= Len(results)
  /\ Success(results[ridx])
  /\ CycleStep
  /\ cpc' = "analysing"
  /\ UNCHANGED <<self_beaches, beach_ids, ridx, successful, rows, pending, processed>>

\* lines 52-58: process_frame returns its Observation or raises; save
\* (repository.py lines 78-129) inserts the row and commits, or raises at the
\* INSERT, or raises at the commit, which leaves the row in the open
\* transaction that the next commit ends
EndProcess(res) ==
  /\ cpc = "analysing"
  /\ CycleStep
  /\ processed' = [processed EXCEPT ![ridx] = res]
  /\ IF res = "saved"
       THEN /\ rows' = rows \o pending \o <<RowOf(beaches, results[ridx])>>
            /\ pending' = <<>>
       ELSE IF res = "commit_raised"
       THEN /\ pending' = Append(pending, RowOf(beaches, results[ridx]))
            /\ UNCHANGED rows
       ELSE UNCHANGED <<rows, pending>>
  /\ successful' = IF Succeeded(res) THEN Append(successful, results[ridx].beach_id)
                   ELSE successful
  /\ IF res = "saved" \/ CaughtInCycle(res)
       THEN /\ cpc' = "looping"
            /\ ridx' = ridx + 1
       ELSE /\ cpc' = "raised"
            /\ UNCHANGED ridx
  /\ UNCHANGED <<self_beaches, beach_ids>>

\* line 60
ReturnSuccessful ==
  /\ cpc = "looping"
  /\ ridx > Len(results)
  /\ CycleStep
  /\ cpc' = "returned"
  /\ UNCHANGED <<self_beaches, beach_ids, ridx, successful, rows, pending, processed>>

\* how the processing of a result with a frame can end
ProcessOutcomes == {"saved", "analysis_raised", "execute_raised", "commit_raised"}

NextRunOnce ==
  \/ NextAll
  \/ LoopStart
  \/ SkipFailed
  \/ BeginProcess
  \/ \E res \in ProcessOutcomes : EndProcess(res)
  \/ ReturnSuccessful

(***************************************************************************)
(* CaptureScheduler.run_daemon                                             *)
(***************************************************************************)
\* the time a cycle takes: up to one tick more than the interval
ElapsedCap(iv) == iv + 1

\* mutant: the sleep does not take the time of the cycle into account
SleepTime_Uncompensated(iv, el) == iv

\* line 82
SleepTime(iv, el) == Max(0, iv - el)

\* mutant: the flag is not read before the sleep
ShouldSleep_WhateverFlag(r, st) == st > 0

\* the condition of the if, line 83
ShouldSleep(r, st) == r /\ st > 0

\* mutant: the loop can be left wherever it is
AtLoopTest_Anywhere(pc) == pc \in {"top", "cycle", "sleeping"}

\* the flag ends the loop at the while test only, line 72
AtLoopTest(pc) == pc = "top"

\* mutant: an error of the cycle clears the flag
RunningAfterCycle_StopOnError(r, raised) == r /\ ~raised

\* lines 78-79: the except branch logs and leaves self._running as it is
RunningAfterCycle(r, raised) == r

\* no run_daemon call is in progress
DaemonIdle ==
  /\ running = FALSE
  /\ dpc = "idle"
  /\ interval = 1
  /\ cycle_elapsed = 0
  /\ sleep_time = 0
  /\ cycles = 0
  /\ gap = 0
  /\ signal_at = "none"
  /\ cycle_raised = FALSE

\* run_daemon is called, lines 64-70: the flag is set and the handlers are
\* installed
DaemonStart ==
  /\ running = TRUE
  /\ dpc = "top"
  /\ interval \in 1..MaxInterval
  /\ cycle_elapsed = 0
  /\ sleep_time = 0
  /\ cycles = 0
  /\ gap = 0
  /\ signal_at = "none"
  /\ cycle_raised = FALSE
  /\ \E n \in 0..MaxDaemonBeaches : self_beaches = [i \in 1..n |-> i]
  /\ beach_ids = {}
  /\ cpc = "idle"
  /\ ridx = 0
  /\ successful = <<>>
  /\ rows = <<>>
  /\ pending = <<>>
  /\ processed = <<>>

\* lines 72-75: the flag is set, start is taken and run_once is called, which
\* calls grab_all with every beach (run_once lines 38-42)
CycleBegin ==
  /\ AtLoopTest(dpc)
  /\ running
  /\ cycles < MaxCycles
  /\ DaemonStep
  /\ dpc' = "cycle"
  /\ gap' = 0
  /\ cycles' = cycles + 1
  /\ beaches' = SelectSites(self_beaches, beach_ids)
  /\ concurrency' = DefaultConcurrency
  /\ sem_value' = SemInit(DefaultConcurrency)
  /\ sem_waiters' = <<>>
  /\ tpc' = [i \in DOMAIN self_beaches |-> "created"]
  /\ task_result' = [i \in DOMAIN self_beaches |-> NoResult]
  /\ apc' = "gathering"
  /\ results' = <<>>
  /\ outcome' = [i \in DOMAIN self_beaches |-> "none"]
  /\ had_to_wait' = [i \in DOMAIN self_beaches |-> FALSE]
  /\ cpc' = "fetching"
  /\ UNCHANGED <<running, interval, cycle_elapsed, sleep_time, signal_at, cycle_raised,
                 self_beaches, beach_ids, ridx, successful, rows, pending, processed>>

\* a step of run_once while the daemon awaits it, line 75
CycleRuns ==
  /\ dpc = "cycle"
  /\ NextRunOnce

\* an error that run_once does not catch ends it at one of its awaits
CycleError ==
  /\ dpc = "cycle"
  /\ cpc \in {"fetching", "analysing"}
  /\ DaemonStep
  /\ cpc' = "raised"
  /\ UNCHANGED <<allVars, daemonVars, self_beaches, beach_ids, ridx, successful, rows,
                 pending, processed>>

\* run_once has returned or raised, lines 76-85: what it raised is logged,
\* elapsed is read from the clock, the sleep is computed and, when the flag is
\* still set, begun; the locals of run_once and of grab_all are gone, and the
\* rows of the cycle are no longer followed
CycleEnd(el) ==
  /\ dpc = "cycle"
  /\ cpc \in {"returned", "raised"}
  /\ DaemonStep
  /\ running' = RunningAfterCycle(running, cpc = "raised")
  /\ cycle_raised' = (cpc = "raised")
  /\ cycle_elapsed' = el
  /\ gap' = el
  /\ LET st == SleepTime(interval, el) IN
       IF ShouldSleep(running', st)
         THEN /\ dpc' = "sleeping"
              /\ sleep_time' = st
         ELSE /\ dpc' = "top"
              /\ sleep_time' = 0
  /\ beaches' = <<>>
  /\ concurrency' = 1
  /\ sem_value' = 0
  /\ sem_waiters' = <<>>
  /\ tpc' = <<>>
  /\ task_result' = <<>>
  /\ apc' = "idle"
  /\ results' = <<>>
  /\ outcome' = <<>>
  /\ had_to_wait' = <<>>
  /\ cpc' = "idle"
  /\ ridx' = 0
  /\ successful' = <<>>
  /\ rows' = <<>>
  /\ pending' = <<>>
  /\ processed' = <<>>
  /\ UNCHANGED <<self_beaches, beach_ids, interval, cycles, signal_at>>

\* asyncio.sleep returns, line 85, and the loop is at its test again
Wake ==
  /\ dpc = "sleeping"
  /\ sleep_time = 0
  /\ DaemonStep
  /\ dpc' = "top"
  /\ UNCHANGED <<allVars, cycleVars, running, interval, cycle_elapsed, sleep_time, cycles, gap,
                 signal_at, cycle_raised>>

\* one tick of the sleep
DaemonTick ==
  /\ dpc = "sleeping"
  /\ sleep_time > 0
  /\ DaemonStep
  /\ sleep_time' = sleep_time - 1
  /\ gap' = gap + 1
  /\ UNCHANGED <<allVars, cycleVars, running, dpc, interval, cycle_elapsed, cycles,
                 signal_at, cycle_raised>>

\* SIGINT or SIGTERM comes while the loop awaits, in run_once (at grab_all or
\* at process_frame) or in its sleep: the event loop runs _stop, lines 89-91
Stop ==
  /\ \/ dpc = "cycle" /\ cpc \in {"fetching", "analysing"}
     \/ dpc = "sleeping"
  /\ running
  /\ DaemonStep
  /\ running' = FALSE
  /\ signal_at' = dpc
  /\ UNCHANGED <<allVars, cycleVars, dpc, interval, cycle_elapsed, sleep_time, cycles, gap,
                 cycle_raised>>

\* the while test finds the flag cleared, lines 72 and 87
DaemonExit ==
  /\ AtLoopTest(dpc)
  /\ ~running
  /\ DaemonStep
  /\ dpc' = "stopped"
  /\ UNCHANGED <<allVars, cycleVars, running, interval, cycle_elapsed, sleep_time, cycles, gap,
                 signal_at, cycle_raised>>

NextDaemon ==
  \/ CycleBegin
  \/ CycleRuns
  \/ CycleError
  \/ \E el \in 0..ElapsedCap(interval) : CycleEnd(el)
  \/ Wake
  \/ DaemonTick
  \/ Stop
  \/ DaemonExit

(***************************************************************************)
(* ObservationRepository                                                   *)
(***************************************************************************)
\* the sites observations are saved for (beach_id is TEXT)
Sites == {"biarritz", "anglet", "hossegor"}

\* the date and the time of day of an instant
DayOf(t) == t \div SlotsPerDay
SlotOf(t) == t % SlotsPerDay

\* datetime.now(timezone.utc).isoformat(), grabber.py line 66: the date, the
\* letter T, the time of day and the offset
IsoFormat(t) == <<DayOf(t), "T", SlotOf(t), "+00:00">>

\* SQLite's datetime(): the date, a space and the time of day
SqlDatetime(t) == <<DayOf(t), " ", SlotOf(t)>>

\* the order of the characters that come at the same place of two timestamps
CharCode(c) == CASE c = " " -> 32 [] c = "+00:00" -> 43 [] c = "T" -> 84

\* the fields of a timestamp text are compared as their characters are: the
\* date and the time of day are digits of a fixed width
FieldLess(i, x, y) == IF i \in {1, 3} THEN x < y ELSE CharCode(x) < CharCode(y)

\* a < b for two TEXT values of SQLite (BINARY collation): the first
\* difference decides, and a proper prefix is less
TextLess(a, b) ==
  \/ \E i \in 1..Min(Len(a), Len(b)) :
       /\ \A j \in 1..(i - 1) : a[j] = b[j]
       /\ a[i] # b[i]
       /\ FieldLess(i, a[i], b[i])
  \/ /\ Len(a) < Len(b)
     /\ \A j \in 1..Len(a) : a[j] = b[j]

\* datetime('now', '-w hours') and datetime('now', '-w minutes'), w in slots
Cutoff(t, w) == SqlDatetime(t - w)

\* mutant: a string is written into the JSON text as it is
Escape_None(str) == str

\* json.dumps of a string without its quotes: a quote and a backslash get a
\* backslash before them
RECURSIVE Escape(_)
Escape(str) ==
  IF str = <<>> THEN <<>>
  ELSE IF Head(str) \in {"\"", "\\"}
         THEN <<"\\", Head(str)>> \o Escape(Tail(str))
         ELSE <<Head(str)>> \o Escape(Tail(str))

\* the items of json.dumps(list), separated by a comma and a space
RECURSIVE DumpItems(_)
DumpItems(list) ==
  IF list = <<>> THEN <<>>
  ELSE <<"\"">> \o Escape(Head(list)) \o <<"\"">>
         \o (IF Tail(list) = <<>> THEN <<>> ELSE <<",", " ">>)
         \o DumpItems(Tail(list))

\* json.dumps of a list of strings
JsonDumps(list) == <<"[">> \o DumpItems(list) \o <<"]">>

\* lines 80-81: json.dumps(list) if list else None
ListColumn(list) == IF list # <<>> THEN Val(JsonDumps(list)) ELSE Absent

\* json.loads reads a string from after its opening quote: [v, next]
RECURSIVE ReadString(_, _, _)
ReadString(text, i, acc) ==
  IF i > Len(text) THEN [v |-> acc, next |-> i]
  ELSE IF text[i] = "\"" THEN [v |-> acc, next |-> i + 1]
  ELSE IF text[i] = "\\" /\ i < Len(text)
         THEN ReadString(text, i + 2, Append(acc, text[i + 1]))
         ELSE ReadString(text, i + 1, Append(acc, text[i]))

\* json.loads reads the items of a list up to its closing bracket
RECURSIVE ReadItems(_, _, _)
ReadItems(text, i, acc) ==
  IF i > Len(text) \/ text[i] = "]" THEN acc
  ELSE IF text[i] = "\""
         THEN LET str == ReadString(text, i + 1, <<>>) IN
                ReadItems(text, str.next, Append(acc, str.v))
         ELSE ReadItems(text, i + 1, acc)

\* json.loads of the text of a list of strings
JsonLoads(text) == ReadItems(text, 2, <<>>)

\* lines 141-144: json.loads(raw) if raw else []
ColumnList(raw) == IF raw.set /\ raw.v # <<>> THEN JsonLoads(raw.v) ELSE <<>>

\* what an analysis leaves in an Observation: the overall score and the two
\* lists, each string a sequence of characters
Unscored ==
  [ai_beach_score |-> Absent, ai_current_indicators |-> <<>>, ai_best_for |-> <<>>,
   ai_current_rip_detected |-> Absent, ai_summary |-> Absent]

Good ==
  [ai_beach_score |-> Val(7),
   ai_current_indicators |-> << <<"r">>, <<",", " ">> >>,
   ai_best_for |-> << <<"s", "\"">> >>,
   ai_current_rip_detected |-> Val(FALSE), ai_summary |-> Val(<<>>)]

Poor ==
  [ai_beach_score |-> Val(3),
   ai_current_indicators |-> << <<"\\">> >>,
   ai_best_for |-> << <<"]">>, <<>> >>,
   ai_current_rip_detected |-> Val(TRUE), ai_summary |-> Val(<<"b", "u", "s", "y">>)]

ObsContents == {Unscored, Good, Poor}

\* the analyses that are saved: of which site, with what in them
Analyses ==
  { [beach_id |-> "biarritz", content |-> Good],
    [beach_id |-> "biarritz", content |-> Unscored],
    [beach_id |-> "anglet", content |-> Unscored],
    [beach_id |-> "anglet", content |-> Poor],
    [beach_id |-> "hossegor", content |-> Poor] }

\* the Observation process_frame builds of a frame captured at t: id is None
MakeObs(bid, t, c) ==
  [id |-> Absent, beach_id |-> bid, captured_at |-> IsoFormat(t),
   ai_beach_score |-> c.ai_beach_score,
   ai_current_indicators |-> c.ai_current_indicators,
   ai_best_for |-> c.ai_best_for,
   ai_current_rip_detected |-> c.ai_current_rip_detected,
   ai_summary |-> c.ai_summary]

\* line 82: int(flag) if flag is not None else None
RipColumn(flag) == IF flag.set THEN Val(IF flag.v THEN 1 ELSE 0) ELSE Absent

\* mutant: a falsy column is read as no flag
ColumnRip_Truthy(raw) == IF raw.set /\ raw.v # 0 THEN Val(TRUE) ELSE Absent

\* lines 145-146: bool(raw) if raw is not None else None
ColumnRip(raw) == IF raw.set THEN Val(raw.v # 0) ELSE Absent

\* id INTEGER PRIMARY KEY AUTOINCREMENT, database.py line 13: the INSERT names
\* no id and gets one above every id given out before
NextId(seq) == seq + 1

\* the row lines 83-135 insert
InsertedRow(o, newId) ==
  [id |-> newId, beach_id |-> o.beach_id, captured_at |-> o.captured_at,
   ai_beach_score |-> o.ai_beach_score,
   ai_current_indicators |-> ListColumn(o.ai_current_indicators),
   ai_best_for |-> ListColumn(o.ai_best_for),
   ai_current_rip_detected |-> RipColumn(o.ai_current_rip_detected),
   ai_summary |-> o.ai_summary]

\* mutant: a stored row of the same site and capture time is overwritten
Inserted_Upsert(rs, row) ==
  IF \E i \in DOMAIN rs : rs[i].beach_id = row.beach_id /\ rs[i].captured_at = row.captured_at
    THEN [i \in DOMAIN rs |->
            IF rs[i].beach_id = row.beach_id /\ rs[i].captured_at = row.captured_at
              THEN row ELSE rs[i]]
    ELSE Append(rs, row)

\* the table after the INSERT: no constraint but the primary key, so the row
\* is added whatever is stored
Inserted(rs, row) == Append(rs, row)

\* lines 139-155: the Observation of a row
RowToObs(row) ==
  [id |-> Val(row.id), beach_id |-> row.beach_id, captured_at |-> row.captured_at,
   ai_beach_score |-> row.ai_beach_score,
   ai_current_indicators |-> ColumnList(row.ai_current_indicators),
   ai_best_for |-> ColumnList(row.ai_best_for),
   ai_current_rip_detected |-> ColumnRip(row.ai_current_rip_detected),
   ai_summary |-> row.ai_summary]

\* the rows of the table, each named by its place in it
Rows == DOMAIN observations

\* the captured_at column of a row
CapturedAt(p) == observations[p].captured_at

\* WHERE beach_id = ?
SiteRows(bid) == {p \in Rows : observations[p].beach_id = bid}

\* mutant: the order is ascending
NewestOf_Ascending(S) == {p \in S : \A q \in S : ~TextLess(CapturedAt(q), CapturedAt(p))}

\* the rows ORDER BY captured_at DESC may put first, and the rows whose
\* captured_at is MAX(captured_at)
NewestOf(S) == {p \in S : \A q \in S : ~TextLess(CapturedAt(p), CapturedAt(q))}

\* lines 157-163: what get_latest can return; rows that tie come in any order
GetLatest(bid) ==
  IF SiteRows(bid) = {} THEN {Absent}
  ELSE {Val(RowToObs(observations[p])) : p \in NewestOf(SiteRows(bid))}

\* captured_at > datetime('now', ?), lines 169 and 181: a comparison of TEXT
AfterCutoff(p, w) == TextLess(Cutoff(now, w), CapturedAt(p))

\* the orders ORDER BY captured_at DESC can give the rows of S
RECURSIVE NewestFirst(_)
NewestFirst(S) ==
  IF S = {} THEN {<<>>}
  ELSE UNION {{<<p>> \o rest : rest \in NewestFirst(S \ {p})} : p \in NewestOf(S)}

\* LIMIT n
Limit(ps, n) == SubSeq(ps, 1, Min(n, Len(ps)))

\* the Observations of the rows of a result
ToObs(ps) == [k \in DOMAIN ps |-> RowToObs(observations[ps[k]])]

\* lines 165-173: what get_history can return
GetHistory(bid, hours, limit) ==
  {ToObs(Limit(ps, limit)) :
     ps \in NewestFirst({p \in SiteRows(bid) : AfterCutoff(p, hours)})}

\* lines 178-183 and the join of line 184: the rows of a site whose
\* captured_at is the greatest of the site's rows after the cutoff
JoinedRows(w) ==
  LET recent == {q \in Rows : AfterCutoff(q, w)}
      latest == {r \in recent :
                   r \in NewestOf({q \in recent :
                                     observations[q].beach_id = observations[r].beach_id})}
  IN  {o \in Rows :
         \E r \in latest : /\ observations[o].beach_id = observations[r].beach_id
                           /\ CapturedAt(o) = CapturedAt(r)}

\* the neutral score of COALESCE
NeutralScore == 5

\* mutant: a row without a score is ranked with score 0
RankKey_Zero(p) ==
  IF observations[p].ai_beach_score.set THEN observations[p].ai_beach_score.v ELSE 0

\* COALESCE(o.ai_beach_score, 5.0), line 185
RankKey(p) ==
  IF observations[p].ai_beach_score.set THEN observations[p].ai_beach_score.v
  ELSE NeutralScore

\* the orders ORDER BY COALESCE(...) DESC can give the rows of S
RECURSIVE BestFirst(_)
BestFirst(S) ==
  IF S = {} THEN {<<>>}
  ELSE UNION {{<<p>> \o rest : rest \in BestFirst(S \ {p})} :
                p \in {q \in S : \A r \in S : RankKey(q) >= RankKey(r)}}

\* lines 175-188: what get_best_beaches can return
GetBestBeaches(max_age) == {ToObs(ps) : ps \in BestFirst(JoinedRows(max_age))}

\* no Observation has been saved
StoreIdle ==
  /\ observations = <<>>
  /\ sqlite_sequence = 0
  /\ now = 0
  /\ lastrowid = Absent
  /\ last_obs = Absent
  /\ registry = <<>>
  /\ last_sync = Absent
  /\ repeated = FALSE

\* the schema has been created and the table is empty
StoreStart ==
  /\ observations = <<>>
  /\ sqlite_sequence = 0
  /\ now = 0
  /\ lastrowid = Absent
  /\ last_obs = Absent
  /\ registry = <<>>
  /\ last_sync = Absent
  /\ repeated = FALSE

\* save(obs), lines 78-137, of the Observation of a frame captured in this
\* slot: INSERT, commit, return cursor.lastrowid
Save(bid, c) ==
  /\ Len(observations) < MaxRows
  /\ StoreStep
  /\ LET o == MakeObs(bid, now, c)
         row == InsertedRow(o, NextId(sqlite_sequence))
     IN  /\ observations' = Inserted(observations, row)
         /\ sqlite_sequence' = row.id
         /\ lastrowid' = Val(row.id)
         /\ last_obs' = Val(o)
  /\ UNCHANGED <<now, registry, last_sync, repeated>>

\* time passes
Advance ==
  /\ now < MaxNow
  /\ StoreStep
  /\ now' = now + 1
  /\ UNCHANGED <<observations, sqlite_sequence, lastrowid, last_obs, registry, last_sync,
                 repeated>>

NextStore ==
  \/ \E a \in Analyses : Save(a.beach_id, a.content)
  \/ Advance

\* the site configs sync_beaches is given: id, name, region, coordinates,
\* orientation (or none) and surf flag
Biarritz ==
  [id |-> "biarritz", name |-> "Grande Plage", region |-> "pays-basque",
   coordinates |-> <<43, -1>>, orientation |-> Val("NW"), surf_spot |-> TRUE]

BiarritzRenamed ==
  [id |-> "biarritz", name |-> "Biarritz", region |-> "pays-basque",
   coordinates |-> <<43, -2>>, orientation |-> Absent, surf_spot |-> FALSE]

Anglet ==
  [id |-> "anglet", name |-> "Anglet", region |-> "pays-basque",
   coordinates |-> <<44, -1>>, orientation |-> Absent, surf_spot |-> TRUE]

\* the lists of configs of the calls: one names a site twice
ConfigLists == {<<Biarritz, Anglet>>, <<BiarritzRenamed>>, <<Anglet, Biarritz, BiarritzRenamed>>}

\* DEFAULT (strftime('%Y-%m-%dT%H:%M:%SZ', 'now')), database.py line 92
StrfTime(t) == <<DayOf(t), "T", SlotOf(t), "Z">>

\* the row lines 193-197 write for a config at t
BeachRow(b, t) ==
  [id |-> b.id, name |-> b.name, region |-> b.region,
   latitude |-> b.coordinates[1], longitude |-> b.coordinates[2],
   orientation |-> b.orientation, surf_spot |-> IF b.surf_spot THEN 1 ELSE 0,
   updated_at |-> StrfTime(t)]

\* mutant: a plain INSERT that keeps the stored row
Replaced_Insert(rs, row) == Append(rs, row)

\* INSERT OR REPLACE, line 194: the row of the same primary key (id TEXT
\* PRIMARY KEY, database.py line 85) is deleted and the new one inserted
Replaced(rs, row) ==
  LET Other(r) == r.id # row.id IN SelectSeq(rs, Other) \o <<row>>

\* the table after the loop of lines 192-198 over the configs
RECURSIVE Synced(_, _, _)
Synced(rs, cfgs, t) ==
  IF cfgs = <<>> THEN rs
  ELSE Synced(Replaced(rs, BeachRow(Head(cfgs), t)), Tail(cfgs), t)

\* sync_beaches(beaches), lines 190-199: an upsert for each config, then commit
SyncBeaches(cfgs) ==
  /\ StoreStep
  /\ registry' = Synced(registry, cfgs, now)
  /\ last_sync' = Val(cfgs)
  /\ repeated' = (last_sync = Val(cfgs))
  /\ UNCHANGED <<observations, sqlite_sequence, now, lastrowid, last_obs>>

NextRegistry ==
  \/ \E cfgs \in ConfigLists : SyncBeaches(cfgs)
  \/ \E a \in Analyses : Len(observations) < MaxRegistryObs /\ Save(a.beach_id, a.content)
  \/ Advance

InitGate == GateStart /\ FetchIdle /\ AllIdle /\ PipeIdle /\ CycleIdle /\ DaemonIdle /\ StoreIdle

SpecGate == InitGate /\ [][NextGate]_vars

\* time keeps advancing and a call whose sleep is over is scheduled
SpecGateFair ==
  /\ SpecGate
  /\ WF_vars(Tick)
  /\ \A c \in Callers : WF_vars(Resume(c))

InitFetch == FetchStart /\ GateIdle /\ AllIdle /\ PipeIdle /\ CycleIdle /\ DaemonIdle /\ StoreIdle

SpecFetch == InitFetch /\ [][NextFetch]_vars

InitAll == AllStart /\ GateIdle /\ FetchIdle /\ PipeIdle /\ CycleIdle /\ DaemonIdle /\ StoreIdle

SpecFetchAll == InitAll /\ [][NextAll]_vars

\* the event loop runs every task that can run, and every grab_frame ends (its
\* requests time out and its retries are bounded)
SpecFetchAllFair ==
  /\ SpecFetchAll
  /\ \A i \in 1..MaxBeaches : WF_vars(i \in DOMAIN tpc /\ Enter(i))
  /\ \A i \in 1..MaxBeaches :
       WF_vars(i \in DOMAIN tpc
               /\ \E kind \in {"frame", "unavailable", "crash"} : FinishFetch(i, kind))
  /\ WF_vars(Gather)

InitPipeline == PipeStart /\ PipeGateStart /\ FetchIdle /\ AllIdle /\ CycleIdle /\ DaemonIdle /\ StoreIdle

SpecPipeline == InitPipeline /\ [][NextPipeline]_vars

InitRunOnce == CycleStart /\ GateIdle /\ FetchIdle /\ PipeIdle /\ DaemonIdle /\ StoreIdle

SpecRunOnce == InitRunOnce /\ [][NextRunOnce]_vars

InitDaemon == DaemonStart /\ AllIdle /\ GateIdle /\ FetchIdle /\ PipeIdle /\ StoreIdle

SpecDaemon == InitDaemon /\ [][NextDaemon]_vars

\* the event loop runs what can run, time advances and every cycle ends
SpecDaemonFair ==
  /\ SpecDaemon
  /\ WF_vars(CycleRuns)
  /\ WF_vars(\E el \in 0..ElapsedCap(interval) : CycleEnd(el))
  /\ WF_vars(Wake)
  /\ WF_vars(DaemonTick)
  /\ WF_vars(DaemonExit)

InitStore ==
  /\ StoreStart
  /\ GateIdle /\ FetchIdle /\ AllIdle /\ PipeIdle /\ CycleIdle /\ DaemonIdle

SpecStore == InitStore /\ [][NextStore]_vars

SpecRegistry == InitStore /\ [][NextRegistry]_vars

(***************************************************************************)
(* Properties of the RateGate                                              *)
(***************************************************************************)
\* the counter the daily check of a call entered now would read (lines 25-28)
CounterAtCheck == IF today # daily_reset_date THEN 0 ELSE daily_used

\* C1: under any interleaving of concurrent acquire() calls, suspended ones
\* included, the daily counter is never above `daily`.
C1_DailyCapNeverExceeded == daily_used <= daily

\* C2: a call made when the daily counter has reached `daily` and the UTC date
\* has not changed fails at once: it does not suspend, whatever the token count
\* is, and leaves the token count and the daily counter as they were.
C2_ExhaustedFailsAtOnce ==
  [][\A c \in Callers :
       (gpc[c] = "idle" /\ gpc'[c] # "idle"
          /\ daily_used >= daily /\ today = daily_reset_date)
       => (gpc'[c] = "failed" /\ tokens' = tokens /\ daily_used' = daily_used
           /\ sinceRefill' = sinceRefill)]_vars

\* a call has failed on the daily cap although a whole token was in the bucket
C2_Witness ==
  \E c \in Callers :
    /\ gpc[c] = "failed"
    /\ tokens >= TicksPerToken
    /\ daily_used >= daily
    /\ today = daily_reset_date

\* C3: from a full bucket, while no time has elapsed, the first rpm calls
\* return without suspending; the (rpm+1)-th call suspends for the refill time
\* of one token and is served when that time has elapsed, not earlier (no
\* more than rpm acquisitions are made before that time).
C3_BurstThenWait ==
  /\ []((clock = 0 /\ granted < rpm) => \A c \in Callers : gpc[c] # "sleeping")
  /\ [](clock < TicksPerToken => granted <= rpm)
  /\ [][\A c \in Callers :
          (gpc[c] = "idle" /\ gpc'[c] # "idle" /\ clock = 0 /\ granted = rpm
             /\ CounterAtCheck < daily)
          => (gpc'[c] = "sleeping" /\ remaining'[c] = TicksPerToken)]_vars
  /\ [][\A c \in Callers :
          (gpc[c] = "sleeping" /\ gpc'[c] # "sleeping" /\ granted = rpm)
          => (gpc'[c] = "done" /\ clock >= TicksPerToken)]_vars

\* the (rpm+1)-th acquisition went to a call that had suspended, exactly one
\* token's refill time after construction
C3_Witness ==
  \E c \in Callers :
    /\ gpc[c] = "done"
    /\ suspended[c]
    /\ granted = rpm + 1
    /\ clock = TicksPerToken

\* C4: the first acquire() after the UTC date has changed sets the daily
\* counter to 0 before the daily check, so it is admitted (it does not fail on
\* the cap, however many calls the previous day had) and is counted as the
\* first of the new day.
C4_RolloverResets ==
  [][\A c \in Callers :
       (gpc[c] = "idle" /\ gpc'[c] # "idle" /\ today # daily_reset_date)
       => /\ daily_reset_date' = today
          /\ gpc'[c] # "failed"
          /\ daily_used' = (IF gpc'[c] = "done" THEN 1 ELSE 0)]_vars

\* the previous day's budget was spent to the last call (no call ever
\* suspended, so each acquisition was counted on the day it was made), and the
\* new day's first call was admitted and counted as 1
C4_Witness ==
  /\ daily_reset_date = 1
  /\ today = 1
  /\ daily_used = 1
  /\ granted = daily + 1
  /\ \A c \in Callers : ~suspended[c]

\* C5: a call fails only on the daily check at its entry, never once it has
\* passed it: a suspended call stays suspended or returns; provided time
\* advances no call stays suspended for ever (again and again no call is
\* suspended), so every suspended call eventually returns; the pass of the
\* loop that serves a call takes exactly one token from the refilled bucket
\* and adds exactly one to the daily counter.
C5_ThrottleIsWait ==
  /\ [][\A c \in Callers :
          (gpc[c] # "failed" /\ gpc'[c] = "failed")
          => (gpc[c] = "idle" /\ CounterAtCheck >= daily)]_vars
  /\ [][\A c \in Callers :
          gpc[c] = "sleeping" => gpc'[c] \in {"sleeping", "done"}]_vars
  /\ []<>(\A c \in Callers : gpc[c] # "sleeping")
  /\ [][\A c \in Callers :
          (gpc[c] # "done" /\ gpc'[c] = "done")
          => /\ tokens' = Min(rpm * TicksPerToken, tokens + sinceRefill) - TicksPerToken
             /\ tokens' >= 0
             /\ daily_used' = (IF gpc[c] = "idle" THEN CounterAtCheck ELSE daily_used) + 1]_vars

\* a call that had to wait for a token has returned
C5_Witness == \E c \in Callers : gpc[c] = "done" /\ suspended[c]

\* the calls that have returned
Served == {c \in Callers : gpc[c] = "done"}

\* C37: under any interleaving of concurrent acquire() calls and any passage
\* of time the token count stays within [0, rpm]: a refill never raises it
\* above rpm, and no token is consumed twice (each call that returns has taken
\* a whole token that was in the bucket, one call at a time, and no more
\* tokens are granted than the full bucket and the elapsed time provide).
C37_TokensWithinBucket ==
  /\ [](0 <= tokens /\ tokens <= Capacity(rpm))
  /\ [](granted = Cardinality(Served))
  /\ [][granted' # granted =>
          /\ granted' = granted + 1
          /\ \E c \in Callers : Served' = Served \cup {c} /\ c \notin Served
          /\ tokens' = Refill(tokens, sinceRefill, rpm) - TicksPerToken
          /\ tokens' >= 0]_vars
  /\ [][tokens' <= Refill(tokens, sinceRefill, rpm)]_vars
  /\ [](clock < ClockCap => granted * TicksPerToken + tokens <= Capacity(rpm) + clock)

\* time had passed on a full bucket of two tokens when two calls took them: the
\* refill gave nothing above rpm, and a third call is waiting on the empty bucket
C37_Witness ==
  /\ rpm = 2
  /\ clock > 0
  /\ sinceRefill = 0
  /\ granted = 2
  /\ tokens = 0
  /\ \E c \in Callers : gpc[c] = "sleeping"

(***************************************************************************)
(* Properties of FrameSource.fetch (grab_frame)                            *)
(***************************************************************************)
\* the first n configured endpoints, in their configured order
FirstUrls(n) == [i \in 1..n |-> all_urls[i]]

\* C6: the endpoints are tried in the configured order, the primary first; the
\* call returns at the first endpoint that yields image bytes, with a frame
\* holding those bytes and that endpoint as source_url; no endpoint after it
\* is tried or sent a request.
C6_FirstWorkingEndpoint ==
  /\ Len(urls_tried) <= Len(all_urls)
  /\ urls_tried = FirstUrls(Len(urls_tried))
  /\ \A i \in DOMAIN all_urls : attempts[i] > 0 => i <= Len(urls_tried)
  /\ yielded # {} => fpc = "returned"
  /\ fpc = "returned" =>
       \E k \in DOMAIN all_urls :
         /\ yielded = {k}
         /\ frame.source_url = all_urls[k]
         /\ frame.image_bytes = BytesOf(all_urls[k])
         /\ frame.beach_id = TheBeach
         /\ Len(urls_tried) = k
         /\ \A j \in DOMAIN all_urls : j > k => attempts[j] = 0

\* the primary failed, a fallback served the frame and a later fallback was
\* left alone
C6_Witness ==
  /\ fpc = "returned"
  /\ Len(all_urls) = 3
  /\ frame.source_url = all_urls[2]
  /\ attempts[1] > 0
  /\ ended[1] = "http"

\* C7 as stated: the call fails only when every endpoint has been tried and
\* has made (at least) max_retries attempts.
C7_FailsOnlyWhenAllExhausted ==
  fpc = "raised" =>
    /\ Len(urls_tried) = Len(all_urls)
    /\ \A i \in DOMAIN all_urls : attempts[i] >= max_retries

\* C7 amended: the call fails only when every endpoint has been tried and each
\* of them has either made max_retries attempts or ended on an error that the
\* retry loop does not retry (anything but an httpx.HTTPError).
C7_FailsOnlyWhenAllGaveUp ==
  fpc = "raised" =>
    /\ urls_tried = all_urls
    /\ \A i \in DOMAIN all_urls :
         /\ ended[i] \in {"http", "other"}
         /\ attempts[i] = max_retries \/ ended[i] = "other"

\* the call has failed with one endpoint retried to the end and another one
\* given up before its last attempt
C7_Witness ==
  /\ fpc = "raised"
  /\ max_retries = 2
  /\ \E i, j \in DOMAIN all_urls :
       /\ ended[i] = "http" /\ attempts[i] = 2
       /\ ended[j] = "other" /\ attempts[j] < 2

LinearBackoffs(n) == [k \in 1..n |-> k]

\* C34: when attempt k (counted from 1) on an endpoint fails at the transport
\* level and k < max_retries, fetch sleeps backoff * k and then makes attempt
\* k+1 on the same endpoint; after the last attempt on an endpoint it does not
\* sleep, it goes straight on to the next endpoint (or returns the frame).
C34_LinearBackoff ==
  /\ [](\A i \in DOMAIN all_urls :
          /\ sleeps[i] = LinearBackoffs(Len(sleeps[i]))
          /\ Len(sleeps[i]) < Max(1, max_retries))
  /\ [][fpc = "attempt" /\ fpc' = "backoff" =>
          /\ attempt + 1 < max_retries
          /\ sleeps'[url_idx] = Append(sleeps[url_idx], attempt + 1)
          /\ url_idx' = url_idx]_vars
  /\ [][fpc = "attempt" /\ ended'[url_idx] = "http" => attempt + 1 = max_retries]_vars
  /\ [][fpc = "backoff" =>
          /\ fpc' = "attempt"
          /\ url_idx' = url_idx
          /\ attempt' = attempt + 1]_vars
  /\ [][fpc = "attempt" /\ attempt + 1 >= max_retries =>
          /\ sleeps' = sleeps
          /\ fpc' \in {"returned", "next_url"}]_vars

\* the first endpoint has failed three times at the transport level, with
\* backoffs of 1 and 2 units in between, and the second endpoint is being tried
C34_Witness ==
  /\ max_retries = 3
  /\ Len(all_urls) >= 2
  /\ url_idx = 2
  /\ fpc = "attempt"
  /\ ended[1] = "http"
  /\ attempts[1] = 3
  /\ sleeps[1] = <<1, 2>>
  /\ sleeps[2] = <<>>

\* C35: an endpoint of the indirect-provider type (windy://) is not retried:
\* within one fetch it is attempted at most once and no backoff is slept on it.
C35_ProviderNotRetried ==
  \A i \in DOMAIN all_urls :
    IsWindy(all_urls[i]) => attempts[i] <= 1 /\ sleeps[i] = <<>>

(***************************************************************************)
(* Properties of FrameSource.fetchAll (grab_all)                           *)
(***************************************************************************)
\* the fetches in progress
InProgress == {i \in DOMAIN tpc : tpc[i] = "fetching"}

\* C9: at every moment at most `concurrency` fetches are in progress, and the
\* fetch of every beach is eventually started and finished.
C9_BoundedFanOut ==
  /\ [](Cardinality(InProgress) <= concurrency)
  /\ \A i \in 1..MaxBeaches :
       <>(i \in DOMAIN tpc => (tpc[i] = "finished" /\ outcome[i] # "none"))

\* more beaches than slots: a fetch that had to wait for a slot has been made
C9_Witness ==
  /\ Len(beaches) > concurrency
  /\ \E i \in DOMAIN tpc : had_to_wait[i] /\ tpc[i] = "finished"
  /\ \A i \in DOMAIN tpc : tpc[i] = "finished"

\* C10: grab_all never raises; the list it returns has one GrabResult for each
\* beach, in the order of the beaches, each with a frame or with an error and
\* never with both or with neither; the result of a beach is a success with
\* that beach's frame exactly when its own grab_frame returned one, whatever
\* happened to the other beaches.
C10_OneResultPerBeach ==
  /\ apc # "raised"
  /\ \A i \in DOMAIN tpc : tpc[i] # "crashed"
  /\ apc = "returned" =>
       /\ Len(results) = Len(beaches)
       /\ \A i \in DOMAIN beaches :
            /\ results[i].beach_id = beaches[i]
            /\ (results[i].frame = NoFrame) # (results[i].error = None)
            /\ Success(results[i]) <=> outcome[i] = "frame"
            /\ Success(results[i]) => results[i].frame = FrameOf(beaches[i])
            /\ ~Success(results[i]) => results[i].error = outcome[i]

\* a beach whose endpoints were all exhausted, and a beach after it, which had
\* to wait for a slot, with its frame
C10_Witness ==
  /\ apc = "returned"
  /\ \E i, j \in DOMAIN beaches :
       /\ i < j
       /\ outcome[i] = "unavailable" /\ ~Success(results[i])
       /\ had_to_wait[j] /\ Success(results[j])

(***************************************************************************)
(* Properties of the AnalysisOrchestrator                                  *)
(***************************************************************************)
\* the caller has enabled the escalation: use_ai is true and the pipeline was
\* given a vision client
EscalationEnabled == use_ai /\ vision

\* the frame qualifies for the escalation
Qualifies == local_result.status = "working" /\ local_result.is_usable

\* process_frame is past its step 4
PastEscalation == ppc \in {"merge", "returned"}

\* analyze_frame was called for the frame: its acquire() call was made
Attempted == gpc[PipeCaller] # "idle"

\* the stage ended on a failure
EscalationFailed == failed \cap {"acquire", "call", "parse"} # {}

\* the Observation has no vision analysis
NoVisionFields(o) ==
  /\ ~o.ai_beach_score.set
  /\ ~o.ai_summary.set
  /\ ~o.analysis_model.set

\* C11: the reasoning service is attempted for a frame if and only if the
\* escalation is enabled, the camera status is "working" and the image is
\* usable; in every other case the limiter is left untouched (no acquire call,
\* no token and no daily unit taken) and the service is not called.
C11_EscalationGate ==
  /\ PastEscalation => (Attempted <=> (EscalationEnabled /\ Qualifies))
  /\ ~(EscalationEnabled /\ Qualifies) =>
       /\ ~Attempted
       /\ granted = 0
       /\ service_calls = 0
  /\ service_calls <= granted

C11_Witness ==
  /\ ppc = "returned"
  /\ EscalationEnabled /\ Qualifies
  /\ granted = 1
  /\ service_calls = 1

\* what holds of a detection that failed: it left no result, it did not make
\* process_frame raise, and the later stages ran as they do without detection
DetectionContained ==
  "detection" \in failed =>
    /\ person_result = Absent
    /\ ppc # "raised"
    /\ ppc \in {"escalation", "acquiring", "merge", "returned"} =>
         ("weather" \in ran <=> weather_client)
    /\ PastEscalation => (Attempted <=> (EscalationEnabled /\ Qualifies))
    /\ ppc = "returned" => ~obs.person_count.set

\* C12 as stated: detection runs if and only if the camera status is
\* "working", and a failure of detection is contained.
C12_DetectionIffWorking ==
  /\ ppc \notin {"idle", "local", "detection", "raised"} =>
       ("detection" \in ran <=> local_result.status = "working")
  /\ DetectionContained

\* C12: detection runs if and only if a detector is configured and the camera
\* status is "working", and a failure of detection is contained: the detection
\* fields are absent, the weather fetch and the escalation run as without it.
C12_DetectionIffConfiguredAndWorking ==
  /\ ppc \notin {"idle", "local", "detection", "raised"} =>
       ("detection" \in ran <=> (person_detector /\ local_result.status = "working"))
  /\ DetectionContained

C12_Witness ==
  /\ ppc = "returned"
  /\ "detection" \in failed
  /\ "weather" \in ran
  /\ service_calls = 1
  /\ obs.ai_summary.set

\* what holds of every frame whose acquire() failed on the daily cap: the
\* service is not called, now or later in the call, the Observation has its
\* local-analysis fields, no vision fields and the text of the quota error
QuotaOutcome ==
  "acquire" \in failed =>
    /\ service_calls = 0
    /\ gpc[PipeCaller] = "failed"
    /\ ppc = "returned" =>
         /\ obs.cv_wave_level.set
         /\ NoVisionFields(obs)
         /\ obs.error_message = Val(QuotaText(daily))

\* C13 as stated: on QuotaExhausted the Observation has its local-analysis,
\* weather and detection fields populated, whatever those stages did.
C13_QuotaKeepsOtherFields ==
  /\ QuotaOutcome
  /\ "acquire" \in failed /\ ppc = "returned" =>
       /\ obs.weather_temperature_c.set
       /\ obs.person_count.set

\* C13: on QuotaExhausted the service is not called and not retried, the
\* Observation has its local-analysis fields, the detection fields when a
\* detector is configured and did not fail, the weather fields when the
\* weather client returned values, no vision fields, and error_message is the
\* quota reason.
C13_QuotaKeepsDeliveredFields ==
  /\ QuotaOutcome
  /\ "acquire" \in failed /\ ppc = "returned" =>
       /\ obs.person_count.set <=> (person_detector /\ "detection" \notin failed)
       /\ obs.weather_temperature_c.set <=>
            (weather_data.set /\ weather_data.v.temperature_c.set)

C13_Witness ==
  /\ ppc = "returned"
  /\ "acquire" \in failed
  /\ obs.person_count.set
  /\ obs.weather_temperature_c.set
  /\ obs.error_message.set

\* C14: whenever the reasoning-service stage was skipped or failed, the
\* Observation returned has a non-empty error_message.
C14_NoSilentSkip ==
  ppc = "returned" /\ ("escalation" \notin ran \/ EscalationFailed) =>
    /\ obs.error_message.set
    /\ obs.error_message.v # <<>>

\* the text names the status
Names(text, status) == \E k \in DOMAIN text : text[k] = status

\* C15: for a camera that is not "working" the Observation has no detection
\* result, no vision analysis, and an error_message naming the camera status.
C15_CameraNotWorking ==
  ppc = "returned" /\ local_result.status # "working" =>
    /\ ~obs.person_count.set
    /\ NoVisionFields(obs)
    /\ obs.error_message.set
    /\ Names(obs.error_message.v, local_result.status)

\* C16: process_frame never raises, whichever stage fails.
C16_NeverRaises == ppc # "raised"

\* what holds of a weather fetch that failed: it left no data, it did not make
\* process_frame raise, the escalation gate is evaluated as without it and the
\* call goes on to return its Observation, which has no weather fields
WeatherContained ==
  "weather" \in failed =>
    /\ weather_data = Absent
    /\ ppc # "raised"
    /\ ppc # "returned" => ENABLED NextPipeline
    /\ PastEscalation => (Attempted <=> (EscalationEnabled /\ Qualifies))
    /\ ppc = "returned" => ~obs.weather_temperature_c.set

ParseReasons == {ParseText(k, ErrorText) : k \in {"bad_json", "bad_schema"}}
TransportReasons == {TransportText(TheBeach, ErrorText)}

StageRank(pc) ==
  CASE pc = "local" -> 1
    [] pc = "detection" -> 2
    [] pc = "weather" -> 3
    [] pc = "escalation" -> 4
    [] pc = "acquiring" -> 5
    [] pc = "merge" -> 6
    [] pc \in {"returned", "raised"} -> 7
    [] OTHER -> 0

\* C36: within one frame the stages run in the order local analysis, detection,
\* weather fetch, reasoning escalation, each after the previous one has
\* finished; the reasoning-service call never starts before the detection and
\* weather stages of the frame have ended, and it is given their results.
C36_StagesInOrder ==
  /\ [][StageRank(ppc') >= StageRank(ppc)]_vars
  /\ [][ppc' # ppc /\ StageRank(ppc) <= 3 /\ ppc' # "raised" =>
          StageRank(ppc') = StageRank(ppc) + 1]_vars
  /\ []("detection" \in ran => StageRank(ppc) >= 3 /\ local_result \in LocalResults)
  /\ []("weather" \in ran => StageRank(ppc) >= 4)
  /\ []("escalation" \in ran <=> vision_args.set)
  /\ []("escalation" \in ran => StageRank(ppc) >= 5)
  /\ [](service_calls > 0 => StageRank(ppc) >= 6 /\ vision_args.set)
  /\ [][StageRank(ppc) >= 2 => local_result' = local_result]_vars
  /\ [][StageRank(ppc) >= 3 => person_result' = person_result]_vars
  /\ [][StageRank(ppc) >= 4 => weather_data' = weather_data]_vars
  /\ [](vision_args.set =>
          vision_args.v = [local_result |-> local_result,
                           person_result |-> person_result,
                           weather_data |-> weather_data])

\* the four stages ran, and the reasoning service was called with a detection
\* result and with weather data
C36_Witness ==
  /\ ppc = "returned"
  /\ ran = {"detection", "weather", "escalation"}
  /\ service_calls = 1
  /\ vision_args.set
  /\ vision_args.v.person_result.set
  /\ vision_args.v.weather_data = Val([temperature_c |-> Val(18)])
  /\ vision_args.v.local_result.status = "working"

\* the reasoning-service call of the frame has failed
CallFailed == failed \cap {"call", "parse"} # {}

\* C38: a successful acquire() is never rolled back: when the reasoning-service
\* call that follows it fails (transport error or malformed response), the
\* token and the unit of daily budget it consumed stay consumed.
C38_NoRollback ==
  /\ [][granted' # granted =>
          /\ granted' = granted + 1
          /\ daily_used' = daily_used + 1
          /\ tokens' = Refill(tokens, sinceRefill, rpm) - TicksPerToken]_vars
  /\ [][granted > 0 => UNCHANGED <<tokens, daily_used, granted>>]_vars
  /\ [][service_calls' # service_calls =>
          gpc[PipeCaller] = "done" /\ granted = 1]_vars
  /\ [](CallFailed =>
          /\ service_calls = 1
          /\ granted = 1
          /\ daily_used >= 1
          /\ tokens <= Capacity(rpm) - TicksPerToken)

\* the call of the reasoning service failed on a malformed response after its
\* acquire had taken the last unit of the daily budget and the last token
C38_Witness ==
  /\ ppc = "returned"
  /\ failed = {"parse"}
  /\ granted = 1
  /\ daily_used = daily
  /\ tokens = 0
  /\ obs.error_message.set

\* the Observation carries the report of the reasoning service
HasReport(o) == o.ai_beach_score.set /\ o.ai_summary.set

\* C39: in every Observation process_frame returns, the vision fields are
\* populated if and only if analysis_model is set, and an Observation with
\* vision fields has no error_message: it never carries both a report and an
\* error annotation.
C39_ReportOrError ==
  ppc = "returned" =>
    /\ obs.ai_beach_score.set = obs.ai_summary.set
    /\ HasReport(obs) <=> obs.analysis_model.set
    /\ HasReport(obs) => ~obs.error_message.set
    /\ HasReport(obs) <=> vision_result.set

\* an Observation with the report and the model's name and no error, made
\* although the detection and the weather fetch of the frame had failed
C39_Witness ==
  /\ ppc = "returned"
  /\ HasReport(obs)
  /\ obs.analysis_model = Val("model")
  /\ obs.error_message = Absent
  /\ failed = {"detection", "weather"}

(***************************************************************************)
(* Properties of the CaptureScheduler                                      *)
(***************************************************************************)
\* the rows of a beach among some rows
RowsOf(rs, b) == {k \in DOMAIN rs : rs[k].beach_id = b}

\* the ids in a list
Ids(seq) == {seq[k] : k \in DOMAIN seq}

\* the positions of the results whose fetch, analysis and save all succeeded
Completed ==
  SelectSeq([i \in DOMAIN results |-> i],
            LAMBDA i : outcome[i] = "frame" /\ processed[i] = "saved")

\* C19: run_once returns exactly the ids of the sites of the cycle whose
\* fetch, analysis and save all succeeded; one row is committed for each id
\* returned and none is inserted for a site whose fetch failed; each selected
\* site is fetched once: its fetch task is made once and, once it has ended,
\* is not run again.
C19_ReturnsCompletedSites ==
  /\ [](cpc = "returned" =>
          /\ successful = [k \in DOMAIN Completed |-> beaches[Completed[k]]]
          /\ \A i \in DOMAIN results :
               outcome[i] # "frame" => RowsOf(rows \o pending, beaches[i]) = {})
  /\ [](\A b \in Ids(successful) : Cardinality(RowsOf(rows, b)) = 1)
  /\ [](/\ beaches = SelectSites(self_beaches, beach_ids)
        /\ DOMAIN tpc = DOMAIN beaches
        /\ \A i, j \in DOMAIN beaches : beaches[i] = beaches[j] => i = j)
  /\ [][\A i \in DOMAIN tpc :
          tpc[i] \in {"finished", "crashed"} => tpc'[i] = tpc[i] /\ outcome'[i] = outcome[i]]_vars

C19_Witness ==
  /\ cpc = "returned"
  /\ Len(results) = 3
  /\ outcome[2] = "unavailable"
  /\ successful = <<1, 3>>
  /\ Len(rows) = 2

\* C20: what process_frame or save raises for a site is caught in the loop:
\* run_once does not raise and goes on to its return, the site is not in the
\* list returned, and every other site with a frame is analysed and, unless it
\* fails itself, saved and returned.
C20_SiteFailureContained ==
  /\ cpc # "raised"
  /\ cpc \in {"fetching", "looping", "analysing"} => ENABLED NextRunOnce
  /\ cpc = "returned" =>
       \A i \in DOMAIN results :
         /\ outcome[i] = "frame" => processed[i] \in ProcessOutcomes
         /\ processed[i] = "saved" =>
              /\ beaches[i] \in Ids(successful)
              /\ RowsOf(rows, beaches[i]) # {}
         /\ processed[i] \in ProcessOutcomes \ {"saved"} => beaches[i] \notin Ids(successful)

C20_Witness ==
  /\ cpc = "returned"
  /\ Len(results) = 3
  /\ processed[1] = "analysis_raised"
  /\ processed[2] = "execute_raised"
  /\ processed[3] = "saved"
  /\ successful = <<3>>

(***************************************************************************)
(* Properties of the CaptureScheduler's daemon loop                        *)
(***************************************************************************)
\* the step in which the daemon takes the end of a cycle
EndsCycle == dpc = "cycle" /\ dpc' # "cycle"

\* the step in which the signal comes
SignalComes == signal_at = "none" /\ signal_at' # "none"

\* C21: after a cycle that took elapsed, while the flag is set, the loop
\* sleeps max(0, interval - elapsed), and not at all when that is 0: the next
\* cycle can start interval after the last start when elapsed <= interval,
\* and elapsed after it, at once, when elapsed >= interval.
C21_CadenceSleep ==
  /\ [][EndsCycle /\ running' =>
          IF interval - cycle_elapsed' > 0
            THEN dpc' = "sleeping" /\ sleep_time' = interval - cycle_elapsed'
            ELSE dpc' = "top" /\ sleep_time' = 0]_vars
  /\ [](dpc = "sleeping" => gap + sleep_time = interval)
  /\ [](dpc = "top" /\ cycles > 0 =>
          IF cycle_elapsed <= interval /\ signal_at # "cycle"
            THEN gap = interval
            ELSE gap = cycle_elapsed)

C21_Witness ==
  /\ dpc = "top"
  /\ cycles = 1
  /\ running
  /\ interval = 2
  /\ cycle_elapsed = 1
  /\ gap = 2
  /\ ~cycle_raised

\* C22: a signal that comes during a cycle changes nothing of the cycle; the
\* loop is left at its test only, never within a cycle, and the cycle the
\* daemon takes the end of has analysed every site that had a frame and holds
\* the row of every site whose save returned.
C22_SignalCancelsNothing ==
  /\ [][SignalComes => UNCHANGED <<allVars, cycleVars>>]_vars
  /\ [](dpc = "stopped" => cpc = "idle")
  /\ [][EndsCycle =>
          /\ cpc \in {"returned", "raised"}
          /\ cpc = "returned" =>
               \A i \in DOMAIN results :
                 outcome[i] = "frame" =>
                   /\ processed[i] \in ProcessOutcomes
                   /\ processed[i] = "saved" => RowsOf(rows, beaches[i]) # {}]_vars

C22_Witness ==
  /\ dpc = "cycle"
  /\ signal_at = "cycle"
  /\ ~running
  /\ cpc = "returned"
  /\ Len(rows) = 2
  /\ successful = <<1, 2>>

\* C23: once the signal has come no cycle is started; a signal that came
\* during a cycle is followed by no sleep; the loop is left at its next test.
C23_NoCycleAfterSignal ==
  /\ [](~running => signal_at # "none")
  /\ [][signal_at # "none" => cycles' = cycles]_vars
  /\ [](signal_at = "cycle" => dpc \in {"cycle", "top", "stopped"})
  /\ [][signal_at # "none" /\ dpc = "top" => dpc' = "stopped"]_vars
  /\ [](signal_at # "none" => <>(dpc = "stopped"))

C23_Witness ==
  /\ dpc = "stopped"
  /\ signal_at = "sleeping"
  /\ cycles = 1
  /\ gap = interval

\* C24: a cycle that raises leaves the flag as it is and is followed by the
\* same sleep as any cycle; the loop is never left but after a signal, and
\* the next cycle can start.
C24_CycleErrorSurvived ==
  /\ [][EndsCycle /\ cpc = "raised" =>
          /\ running' = running
          /\ IF running /\ interval - cycle_elapsed' > 0
               THEN dpc' = "sleeping" /\ sleep_time' = interval - cycle_elapsed'
               ELSE dpc' = "top"]_vars
  /\ [](dpc = "stopped" => signal_at # "none")
  /\ [](dpc = "top" /\ signal_at = "none" /\ cycles < MaxCycles => ENABLED CycleBegin)

C24_Witness ==
  /\ dpc = "cycle"
  /\ cycles = 2
  /\ cycle_raised
  /\ running
  /\ signal_at = "none"

(***************************************************************************)
(* Properties of the ObservationStore                                      *)
(***************************************************************************)
\* the instant a timestamp text names
TimeOf(text) == text[1] * SlotsPerDay + text[3]

\* a save returns
SaveReturns == lastrowid' # lastrowid

\* the ids of the stored rows: every id a save has returned
StoredIds == {observations[p].id : p \in Rows}

\* C25: save always inserts: a call adds exactly one row, the row of the
\* Observation it was given, leaves every stored row as it is and returns an
\* id no save returned before; an Observation of the site and capture time of
\* a stored row makes a second row.
C25_AlwaysInserts ==
  /\ [][SaveReturns =>
          /\ Len(observations') = Len(observations) + 1
          /\ \A i \in DOMAIN observations : observations'[i] = observations[i]
          /\ lastrowid'.set
          /\ lastrowid'.v \notin StoredIds
          /\ observations'[Len(observations')] = InsertedRow(last_obs'.v, lastrowid'.v)]_vars
  /\ [](\A i, j \in DOMAIN observations : observations[i].id = observations[j].id => i = j)

C25_Witness ==
  /\ Len(observations) = 2
  /\ observations[1].beach_id = observations[2].beach_id
  /\ observations[1].captured_at = observations[2].captured_at
  /\ observations[1].id # observations[2].id
  /\ lastrowid = Val(observations[2].id)

\* C26: latest(site) returns a stored Observation of that site whose capture
\* time no stored Observation of the site exceeds, and returns empty exactly
\* when nothing is stored for the site.
C26_LatestIsNewestOfSite ==
  \A bid \in Sites : \A res \in GetLatest(bid) :
    /\ ~res.set <=> SiteRows(bid) = {}
    /\ res.set =>
         /\ res.v.beach_id = bid
         /\ \E p \in SiteRows(bid) : res.v = RowToObs(observations[p])
         /\ \A p \in SiteRows(bid) : TimeOf(CapturedAt(p)) <= TimeOf(res.v.captured_at)

C26_Witness ==
  /\ Len(observations) = 3
  /\ observations[1].beach_id = "biarritz" /\ TimeOf(observations[1].captured_at) = 0
  /\ observations[2].beach_id = "biarritz" /\ TimeOf(observations[2].captured_at) = 1
  /\ observations[3].beach_id = "anglet" /\ TimeOf(observations[3].captured_at) = 2
  /\ GetLatest("biarritz") = {Val(RowToObs(observations[2]))}
  /\ GetLatest("hossegor") = {Absent}

\* a result lists Observations newest first
NewestFirstOrder(res) ==
  \A i, j \in DOMAIN res :
     i < j => TimeOf(res[i].captured_at) >= TimeOf(res[j].captured_at)

\* the stored rows of a site captured within the last w slots, the slot of
\* the cutoff counted in
WithinWindow(bid, w) == {p \in SiteRows(bid) : TimeOf(CapturedAt(p)) >= now - w}

\* C27: history(site, window, limit) returns only Observations of the site
\* captured within the window, newest first, at most limit of them, the
\* newest ones: none captured before the start of the window.
C27_HistoryWithinWindow ==
  \A bid \in Sites, w \in 1..MaxWindow, lim \in 1..MaxRows :
    \A res \in GetHistory(bid, w, lim) :
      /\ Len(res) = Min(lim, Cardinality(WithinWindow(bid, w)))
      /\ NewestFirstOrder(res)
      /\ \A i \in DOMAIN res :
           /\ res[i].beach_id = bid
           /\ TimeOf(res[i].captured_at) >= now - w
           /\ \E p \in WithinWindow(bid, w) : res[i] = RowToObs(observations[p])
      /\ \A p \in WithinWindow(bid, w) :
           \/ \E i \in DOMAIN res : res[i] = RowToObs(observations[p])
           \/ \A i \in DOMAIN res : TimeOf(res[i].captured_at) >= TimeOf(CapturedAt(p))

\* the Observations of a site in a result
OfSite(res, bid) == {i \in DOMAIN res : res[i].beach_id = bid}

\* C28: bestRanked(max age) returns exactly one Observation for each site
\* that has one captured within the max age, the most recent of the site,
\* and none for any other site: never two of a site, never one older than
\* the cutoff.
C28_OnePerRecentSite ==
  \A w \in 1..MaxWindow : \A res \in GetBestBeaches(w) :
    /\ \A bid \in Sites :
         Cardinality(OfSite(res, bid)) = IF WithinWindow(bid, w) = {} THEN 0 ELSE 1
    /\ \A i \in DOMAIN res :
         /\ TimeOf(res[i].captured_at) >= now - w
         /\ \A p \in SiteRows(res[i].beach_id) :
              TimeOf(CapturedAt(p)) <= TimeOf(res[i].captured_at)

\* the overall score of an Observation is above, or below, the neutral one
Above(o) == o.ai_beach_score.set /\ o.ai_beach_score.v > NeutralScore
Below(o) == o.ai_beach_score.set /\ o.ai_beach_score.v < NeutralScore

\* C29: bestRanked lists by overall score descending, an Observation without
\* a score as if it scored the neutral 5.0: it comes after every Observation
\* scoring above 5.0 and before every one scoring below 5.0.
C29_RankedByScore ==
  \A w \in 1..MaxWindow : \A res \in GetBestBeaches(w) :
    \A i, j \in DOMAIN res :
      /\ res[i].ai_beach_score.set /\ res[j].ai_beach_score.set
           /\ res[i].ai_beach_score.v > res[j].ai_beach_score.v => i < j
      /\ ~res[i].ai_beach_score.set /\ Above(res[j]) => j < i
      /\ ~res[i].ai_beach_score.set /\ Below(res[j]) => i < j

C29_Witness ==
  \E res \in GetBestBeaches(1) :
    /\ Len(res) = 3
    /\ Above(res[1])
    /\ ~res[2].ai_beach_score.set
    /\ Below(res[3])
    /\ {res[i].beach_id : i \in DOMAIN res} = Sites

\* what latest can read back of the Observation the last save was given
ReadBack ==
  {res \in GetLatest(last_obs.v.beach_id) : res.set /\ res.v.id = lastrowid}

\* a list written to its column and read from it is the same list
ContentsRoundTrip ==
  \A c \in ObsContents :
    /\ ColumnList(ListColumn(c.ai_current_indicators)) = c.ai_current_indicators
    /\ ColumnList(ListColumn(c.ai_best_for)) = c.ai_best_for

\* C30: an Observation saved with a populated list of hazard indicators, or
\* of suitable activities, and read back with latest has the same list: the
\* same strings in the same order.
C30_ListsRoundTrip ==
  /\ ContentsRoundTrip
  /\ last_obs.set =>
       /\ ReadBack # {}
       /\ \A res \in ReadBack :
            /\ res.v.ai_current_indicators = last_obs.v.ai_current_indicators
            /\ res.v.ai_best_for = last_obs.v.ai_best_for

C30_Witness ==
  /\ last_obs.set
  /\ Len(last_obs.v.ai_current_indicators) = 2
  /\ \E res \in ReadBack :
       /\ res.v.ai_current_indicators = << <<"r">>, <<",", " ">> >>
       /\ res.v.ai_best_for = << <<"s", "\"">> >>
  /\ observations[Len(observations)].ai_best_for =
       Val(<<"[", "\"", "s", "\\", "\"", "\"", "]">>)

\* C31: an Observation saved and read back is the saved one in every field
\* but the id it was given: a field that was null is null, a field that was
\* set keeps its value, and the rip flag stays null, false or true.
C31_AbsenceSurvives ==
  last_obs.set =>
    /\ ReadBack # {}
    /\ \A res \in ReadBack :
         /\ [res.v EXCEPT !.id = Absent] = last_obs.v
         /\ res.v.ai_current_rip_detected = last_obs.v.ai_current_rip_detected
         /\ res.v.ai_summary = last_obs.v.ai_summary
         /\ res.v.ai_beach_score = last_obs.v.ai_beach_score

C31_Witness ==
  /\ Len(observations) = 2
  /\ observations[1].ai_current_rip_detected = Absent
  /\ observations[1].ai_beach_score = Absent
  /\ observations[2].ai_current_rip_detected = Val(0)
  /\ last_obs.set
  /\ last_obs.v.ai_current_rip_detected = Val(FALSE)
  /\ last_obs.v.ai_summary = Val(<<>>)
  /\ \E res \in ReadBack : res.v.ai_current_rip_detected = Val(FALSE)
  /\ \E res \in GetLatest(observations[1].beach_id) :
       res.set /\ res.v.id = Val(1) /\ res.v.ai_current_rip_detected = Absent

\* the columns of the registry a config gives, without updated_at
Listed(rs) ==
  {[id |-> rs[i].id, name |-> rs[i].name, region |-> rs[i].region,
    latitude |-> rs[i].latitude, longitude |-> rs[i].longitude,
    orientation |-> rs[i].orientation, surf_spot |-> rs[i].surf_spot] : i \in DOMAIN rs}

\* the last config of a list that names the site
LastOf(cfgs, id) ==
  cfgs[CHOOSE i \in DOMAIN cfgs :
         cfgs[i].id = id /\ \A j \in DOMAIN cfgs : cfgs[j].id = id => j <= i]

\* the registry has one row for each site of the configs, with their columns
Carries(rs, cfgs) ==
  \A i \in DOMAIN cfgs :
    \E k \in DOMAIN rs :
      /\ rs[k].id = cfgs[i].id
      /\ \A j \in DOMAIN rs : rs[j].id = cfgs[i].id => j = k
      /\ LET b == LastOf(cfgs, cfgs[i].id) IN
           /\ rs[k].name = b.name
           /\ rs[k].region = b.region
           /\ <<rs[k].latitude, rs[k].longitude>> = b.coordinates
           /\ rs[k].orientation = b.orientation
           /\ rs[k].surf_spot = IF b.surf_spot THEN 1 ELSE 0

\* a sync_beaches call returns
SyncReturns == last_sync' # last_sync \/ registry' # registry \/ repeated' # repeated

\* C32: syncSites is idempotent: a second call with the same configs, then
\* or later, leaves the rows a first call leaves, one row for each site id
\* with the columns of its config; no site id ever has two rows and no call
\* changes a stored observation.
C32_SyncIdempotent ==
  /\ [](\A cfgs \in ConfigLists : \A t \in now..MaxNow :
          LET once == Synced(registry, cfgs, now) IN
            /\ Carries(once, cfgs)
            /\ Listed(Synced(once, cfgs, t)) = Listed(once)
            /\ Len(Synced(once, cfgs, t)) = Len(once))
  /\ [](\A i, j \in DOMAIN registry : registry[i].id = registry[j].id => i = j)
  /\ [](last_sync.set => Carries(registry, last_sync.v))
  /\ [][SyncReturns =>
          /\ UNCHANGED <<observations, sqlite_sequence, lastrowid>>
          /\ (repeated' => Listed(registry') = Listed(registry))]_vars

C32_Witness ==
  /\ repeated
  /\ last_sync = Val(<<Biarritz, Anglet>>)
  /\ Len(registry) = 2
  /\ registry[1].id = "biarritz" /\ registry[1].updated_at = StrfTime(2)
  /\ registry[2].id = "anglet" /\ registry[2].surf_spot = 1
  /\ Len(observations) = 1
  /\ TimeOf(observations[1].captured_at) = 0

(***************************************************************************)
(* Properties that span components                                         *)
(***************************************************************************)
\* the rows a cycle has inserted, committed or not yet
Persisted == rows \o pending

\* C33: every Observation a cycle persists carries the site id, the capture
\* timestamp and the producing endpoint of the frame it was made of,
\* unchanged, and none of the three is null.
C33_CarriesFrameIdentity ==
  \A k \in DOMAIN Persisted :
    \E i \in DOMAIN results :
      /\ Success(results[i])
      /\ processed[i] \in {"saved", "commit_raised"}
      /\ Persisted[k].beach_id = results[i].frame.beach_id
      /\ Persisted[k].beach_id = beaches[i]
      /\ Persisted[k].captured_at = results[i].frame.captured_at
      /\ Persisted[k].source_url = results[i].frame.source_url
      /\ Persisted[k].captured_at = <<"at", beaches[i]>>
      /\ Persisted[k].source_url = <<"url", beaches[i]>>

C33_Witness ==
  /\ cpc = "returned"
  /\ self_beaches = <<1, 2, 3>>
  /\ beaches = <<2, 3>>
  /\ rows = <<[beach_id |-> 2, captured_at |-> <<"at", 2>>, source_url |-> <<"url", 2>>],
              [beach_id |-> 3, captured_at |-> <<"at", 3>>, source_url |-> <<"url", 3>>]>>

\* the place of a site in the scheduler's list of sites
PlaceOf(id) == CHOOSE i \in DOMAIN self_beaches : self_beaches[i] = id

\* every fetch task of the cycle has ended
FetchesOver == \A i \in DOMAIN tpc : tpc[i] \in {"finished", "crashed"}

\* the results whose process_frame call is in progress
InAnalysis == IF cpc = "analysing" THEN {ridx} ELSE {}

\* C40: within one run_once cycle no frame's analysis starts until the fetch of
\* every selected site has finished, and the fetched frames are then analysed
\* and persisted one at a time, in the order the sites were given: at most one
\* process_frame call, hence at most one acquire(), is outstanding at any
\* moment of the cycle.
C40_FetchAllThenOneByOne ==
  /\ [](cpc \in {"looping", "analysing", "returned"} =>
          /\ apc = "returned"
          /\ FetchesOver
          /\ \A i \in DOMAIN results : results[i].beach_id = beaches[i])
  /\ [](~FetchesOver =>
          InAnalysis = {} /\ processed = <<>> /\ Persisted = <<>> /\ successful = <<>>)
  /\ [](cpc \in {"looping", "analysing"} =>
          \A k \in DOMAIN processed : processed[k] # "none" <=> k < ridx)
  /\ [](Cardinality(InAnalysis) <= 1)
  /\ [](\A k \in InAnalysis : k \in DOMAIN results /\ Success(results[k]))
  /\ [][InAnalysis' # InAnalysis => InAnalysis = {} \/ InAnalysis' = {}]_vars
  /\ [][Persisted' # Persisted =>
          /\ InAnalysis = {ridx}
          /\ Persisted' = Append(Persisted, RowOf(beaches, results[ridx]))]_vars
  /\ [](\A a, b \in DOMAIN Persisted :
          a < b => PlaceOf(Persisted[a].beach_id) < PlaceOf(Persisted[b].beach_id))
  /\ [](\A a, b \in DOMAIN successful :
          a < b => PlaceOf(successful[a]) < PlaceOf(successful[b]))

\* the three fetches have ended, the first site's frame is analysed and saved,
\* the second site had no frame, and the third site's frame is in analysis
C40_Witness ==
  /\ cpc = "analysing"
  /\ Len(results) = 3
  /\ ridx = 3
  /\ processed = <<"saved", "skipped", "none">>
  /\ Len(rows) = 1
  /\ FetchesOver

====
